---- MODULE Spec2Model ----
(***************************************************************************)
(* FocusFramework: the state stack engine (FocusManager), the state        *)
(* builder (FocusState), the layer tree (UILayerManager / UILayer) and     *)
(* the asynchronous switch / push / pop operations with their suspension   *)
(* points.                                                                 *)
(*                                                                         *)
(* An operation is a frame in `ops`; every `await` of the source is a      *)
(* position of the frame, and one action resumes a frame and runs the      *)
(* synchronous code up to the frame's next `await`.                        *)
(***************************************************************************)
EXTENDS Integers, Sequences, FiniteSets, TLC

VARIABLES
    states,                 \* FocusManager.states: name -> resolved config
    managedLayers,          \* FocusManager.managedLayers
    stateStack,             \* FocusManager._stateStack
    activeEventListeners,   \* FocusManager.activeEventListeners (keys)
    activeKeyListeners,     \* FocusManager.activeKeyListeners (keys)
    eventBus,               \* FocusEventBus.listeners: the handlers, in order
    documentListeners,      \* the key handlers added to document, in order
    layers,                 \* UILayerManager.layers: name -> UILayer
    detached,               \* UILayer objects out of the registry, by reference
    container,              \* listeners installed on RE.Runtime.rogueDOMContainer
    entryVersion,           \* FocusState._entryVersion, per builder
    instantiatedPrefabs,    \* the closure variable of each withPrefabs* call
    scene,                  \* live prefab instances
    ops,                    \* the frames of the switch/push/pop calls in flight
    calls,                  \* the last two calls issued (observation)
    trace,                  \* what the engine did since the last call (observation)
    prevTrace,              \* the trace of the call before (observation)
    obs                     \* counters and flags of the observer

vars == <<states, managedLayers, stateStack, activeEventListeners,
          activeKeyListeners, eventBus, documentListeners, layers, detached,
          container, entryVersion, instantiatedPrefabs, scene, ops, calls, trace, prevTrace, obs>>

-----------------------------------------------------------------------------
(* Bounds of the exploration *)

MaxCalls == 4        \* calls issued in one behaviour of Spec
MaxConcCalls == 2    \* calls issued after the start of a behaviour of SpecConc
MaxInFlight == 2     \* calls that may be suspended at the same time
MaxLayerOps == 5     \* operations on the layers in one behaviour of SpecLayers

-----------------------------------------------------------------------------
(* Values *)

NONE == "none"                      \* null / undefined name
Undefined == <<>>                   \* an optional property that is not set
Some(x) == <<x>>                    \* an optional property that is set
IsDef(o) == o # <<>>
OrElse(o, d) == IF o # <<>> THEN o[1] ELSE d      \* o ?? d   /   o || d

SeqToSet(s) == {s[i] : i \in 1..Len(s)}

\* variant: the list as it is, repeated elements kept
DedupKeepsAll(s) == s

RECURSIVE Dedup(_)
\* [...new Set(s)]: first occurrences, in order
Dedup(s) ==
    IF s = <<>> THEN <<>>
    ELSE LET r == Dedup(SubSeq(s, 1, Len(s) - 1))
         IN IF s[Len(s)] \in SeqToSet(r) THEN r ELSE Append(r, s[Len(s)])

-----------------------------------------------------------------------------
(* The hooks a builder collects.  kind:                                    *)
(*   "render"   a user enter hook: new XxxUI(ui.find(layer), fm).render()  *)
(*   "ensure"   the enter hook added by ensureLayer(layer, {parent})       *)
(*   "prefabs"  the enter hook added by withPrefabs (group)                *)
(*   "batched"  the enter hook added by withPrefabsBatched (group)         *)
(*   "destroy"  the exit hook added by withPrefabs / withPrefabsBatched    *)
(*   "user"     a user exit hook without an effect on the engine           *)

Hook(kind, layer, parent, group) ==
    [kind |-> kind, layer |-> layer, parent |-> parent, group |-> group]

\* the prefab names and the delay of each withPrefabs* call
PrefabGroups ==
    [ gGame  |-> [names |-> <<"level", "player">>, delayMs |-> 0],
      gLobby |-> [names |-> <<"backdropA", "backdropB">>, delayMs |-> 16] ]

GroupNames == {"gGame", "gLobby"}

\* The builders (FocusState instances) as start() leaves them before register.
Builder(name, ext, visible, layerDefs, preserve, effect, duration, enterHooks, exitHooks, delegated, containerL, managedPrefabs, eventL, keyL) ==
    [ name |-> name, extendsStateName |-> ext,
      uiConfig |-> [visible |-> visible, layers |-> layerDefs,
                    cleanupOnExit |-> Undefined],
      preserveOnExit |-> preserve,
      transitionEffectName |-> effect, transitionDuration |-> duration,
      onEnterHooks |-> enterHooks, onExitHooks |-> exitHooks,
      delegatedListeners |-> delegated, containerListeners |-> containerL,
      managedPrefabs |-> managedPrefabs,
      eventListeners |-> eventL, keyListeners |-> keyL ]

Delegated(layer, eventType, selector, callback) ==
    [layerName |-> layer, eventType |-> eventType, selector |-> selector,
     callback |-> callback]

Builders ==
    [ lobby |->
        Builder("lobby", Undefined, Some(<<"menu">>),
                Some([l \in {"menu", "game"} |-> 10]), <<>>,
                Some("fade"), Some(700),
                << Hook("batched", NONE, NONE, "gLobby"),
                   Hook("render", "menu", NONE, NONE) >>,
                << Hook("destroy", NONE, NONE, "gLobby") >>,
                <<>>, <<>>, PrefabGroups.gLobby.names,
                <<"join">>, <<>>),
      game |->
        Builder("game", Undefined, Some(<<"game", "hud">>), Undefined, <<>>,
                Undefined, Undefined,
                << Hook("prefabs", NONE, NONE, "gGame"),
                   Hook("render", "game", NONE, NONE) >>,
                << Hook("destroy", NONE, NONE, "gGame"),
                   Hook("user", NONE, NONE, NONE) >>,
                << Delegated("game", "click", ".fire", "game.fire"),
                   Delegated("menu", "click", ".back", "game.back") >>,
                << Delegated("game", "mousemove", "", "game.aim") >>,
                PrefabGroups.gGame.names,
                <<"pause", "over">>, <<"Escape">>),
      base |->
        Builder("base", Undefined, Undefined, Undefined, <<>>,
                Some("fade"), Some(250),
                <<>>, << Hook("user", NONE, NONE, NONE) >>,
                <<>>, <<>>, <<>>, <<>>, <<>>),
      pause |->
        Builder("pause", Some("base"), Some(<<"pauseL", "hud">>), Undefined,
                <<>>, Undefined, Undefined,
                << Hook("ensure", "pauseL", NONE, NONE),
                   Hook("ensure", "settingsL", "pauseL", NONE),
                   Hook("render", "pauseL", NONE, NONE) >>,
                << Hook("user", NONE, NONE, NONE) >>,
                <<>>, <<>>, <<>>,
                <<"resume", "settings", "quit">>, <<"Escape">>),
      settings |->
        Builder("settings", Some("base"),
                Some(<<"pauseL", "settingsL", "hud">>), Undefined,
                <<"pauseL">>, Some("fade"), Some(150),
                << Hook("ensure", "settingsL", "pauseL", NONE),
                   Hook("render", "settingsL", NONE, NONE) >>,
                <<>>,
                << Delegated("pauseL", "click", ".tab", "settings.tab") >>,
                <<>>, <<>>,
                <<"back">>, <<>>),
      over |->
        Builder("over", Undefined, Some(<<"menu", "hud">>), Undefined, <<>>,
                Some("iris"), Undefined,
                << Hook("render", "menu", NONE, NONE) >>, <<>>,
                <<>>, <<>>, <<>>,
                <<"back">>, <<>>),
      credits |->
        Builder("credits", Undefined, Some(<<"menu">>), Undefined, <<>>,
                Some("warp"), Some(500),
                << Hook("render", "menu", NONE, NONE) >>,
                << Hook("user", NONE, NONE, NONE) >>,
                <<>>, <<>>, <<>>,
                <<"back">>, <<>>) ]

BuilderNames == {"lobby", "game", "base", "pause", "settings", "over",
                 "credits"}

\* the order of the register() calls
RegistrationOrder ==
    <<"lobby", "game", "base", "pause", "settings", "over", "credits">>

\* the names the host passes to switch / push ("nowhere" is never registered)
Targets == {"lobby", "game", "pause", "settings", "nowhere"}

-----------------------------------------------------------------------------
(* FocusState.build and the inheritance resolver *)

LayerNamesOf(ls) == [i \in 1..Len(ls) |-> ls[i].layerName]

\* FocusState.build(): the unresolved FocusStateConfig of a builder.  The
\* combined onEnter / onExit closures are named by their builder: onEnter and
\* onExit hold the builders whose combined hooks run, in order.
build(b) ==
    LET layersWithListeners ==
            Dedup(LayerNamesOf(b.delegatedListeners)
                  \o LayerNamesOf(b.containerListeners))
        IsPreserved(l) == l \in SeqToSet(b.preserveOnExit)
        cleanupSet ==
            Dedup(OrElse(b.uiConfig.cleanupOnExit, <<>>)
                  \o SelectSeq(layersWithListeners, IsPreserved))
        cleanupOnExit ==
            IF layersWithListeners # <<>> /\ cleanupSet # <<>>
            THEN Some(cleanupSet) ELSE b.uiConfig.cleanupOnExit
    IN  [ extends |-> b.extendsStateName,
          ui |-> [ visible |-> b.uiConfig.visible,
                   layers |-> b.uiConfig.layers,
                   preserveOnExit |->
                       IF b.preserveOnExit # <<>> THEN Some(b.preserveOnExit)
                       ELSE Undefined,
                   cleanupOnExit |-> cleanupOnExit ],
          transitionEffectName |-> b.transitionEffectName,
          transitionDuration |-> b.transitionDuration,
          managedPrefabs |->
              IF b.managedPrefabs # <<>> THEN Some(b.managedPrefabs)
              ELSE Undefined,
          onEnterHookCount |-> Len(b.onEnterHooks),
          onExitHookCount |-> Len(b.onExitHooks),
          eventListeners |->
              IF b.eventListeners # <<>> THEN Some(b.eventListeners)
              ELSE Undefined,
          keyListeners |->
              IF b.keyListeners # <<>> THEN Some(b.keyListeners)
              ELSE Undefined,
          onEnter |-> <<b.name>>,
          onExit |-> <<b.name>> ]

\* variant: the child's combined hooks are chained before the base's
mergeConfigsChildFirst(base, child) ==
    [ extends |-> child.extends,
      ui |-> [ layers |->
                   Some(OrElse(child.ui.layers, <<>>)
                        @@ OrElse(base.ui.layers, <<>>)),
               visible |->
                   IF IsDef(child.ui.visible) THEN child.ui.visible
                   ELSE base.ui.visible,
               preserveOnExit |->
                   Some(Dedup(OrElse(base.ui.preserveOnExit, <<>>)
                              \o OrElse(child.ui.preserveOnExit, <<>>))),
               cleanupOnExit |->
                   Some(Dedup(OrElse(base.ui.cleanupOnExit, <<>>)
                              \o OrElse(child.ui.cleanupOnExit, <<>>))) ],
      transitionEffectName |-> child.transitionEffectName,
      transitionDuration |-> child.transitionDuration,
      managedPrefabs |->
          Some(Dedup(OrElse(base.managedPrefabs, <<>>)
                     \o OrElse(child.managedPrefabs, <<>>))),
      onEnterHookCount |-> base.onEnterHookCount + child.onEnterHookCount,
      onExitHookCount |-> base.onExitHookCount + child.onExitHookCount,
      eventListeners |-> child.eventListeners,
      keyListeners |-> child.keyListeners,
      onEnter |-> child.onEnter \o base.onEnter,
      onExit |-> child.onExit \o base.onExit ]

\* FocusManager.mergeConfigs.  Both arguments come from build(), which sets
\* every key (possibly to undefined), so in {...base, ...child} each simple
\* property is the child's.
mergeConfigs(base, child) ==
    [ extends |-> child.extends,
      ui |-> [ layers |->
                   Some(OrElse(child.ui.layers, <<>>)
                        @@ OrElse(base.ui.layers, <<>>)),
               visible |->
                   IF IsDef(child.ui.visible) THEN child.ui.visible
                   ELSE base.ui.visible,
               preserveOnExit |->
                   Some(Dedup(OrElse(base.ui.preserveOnExit, <<>>)
                              \o OrElse(child.ui.preserveOnExit, <<>>))),
               cleanupOnExit |->
                   Some(Dedup(OrElse(base.ui.cleanupOnExit, <<>>)
                              \o OrElse(child.ui.cleanupOnExit, <<>>))) ],
      transitionEffectName |-> child.transitionEffectName,
      transitionDuration |-> child.transitionDuration,
      managedPrefabs |->
          Some(Dedup(OrElse(base.managedPrefabs, <<>>)
                     \o OrElse(child.managedPrefabs, <<>>))),
      onEnterHookCount |-> base.onEnterHookCount + child.onEnterHookCount,
      onExitHookCount |-> base.onExitHookCount + child.onExitHookCount,
      eventListeners |-> child.eventListeners,
      keyListeners |-> child.keyListeners,
      onEnter |-> base.onEnter \o child.onEnter,
      onExit |-> base.onExit \o child.onExit ]

RECURSIVE resolveInheritanceKeepEdge(_, _, _)
\* variant: a parent that was already visited is not followed, and the
\* reference to it is kept
resolveInheritanceKeepEdge(reg, config, visited) ==
    IF ~IsDef(config.extends) THEN config
    ELSE LET parentName == config.extends[1]
         IN  IF parentName \in visited
             THEN config
             ELSE IF parentName \notin DOMAIN reg
             THEN [config EXCEPT !.extends = Undefined]
             ELSE mergeConfigs(
                      resolveInheritanceKeepEdge(reg, reg[parentName],
                                                 visited \cup {parentName}),
                      config)

RECURSIVE resolveInheritance(_, _, _)
\* FocusManager.resolveInheritance over the registry reg
resolveInheritance(reg, config, visited) ==
    IF ~IsDef(config.extends) THEN config
    ELSE LET parentName == config.extends[1]
         IN  IF parentName \in visited
             THEN [config EXCEPT !.extends = Undefined]
             ELSE IF parentName \notin DOMAIN reg
             THEN [config EXCEPT !.extends = Undefined]
             ELSE mergeConfigs(
                      resolveInheritance(reg, reg[parentName],
                                         visited \cup {parentName}),
                      config)

-----------------------------------------------------------------------------
(* The layer tree: UILayer and UILayerManager.  Each operation maps the      *)
(* world w (a record of the variables) to the world after it.                *)

\* the names the host gives to layers, the references it keeps to layers it
\* destroyed, and the cleanup tasks it registers (the second one throws)
LayerNames == {"a", "b", "c"}
Handles == {"ref1"}
TaskIds == {"t1", "t2"}
Throwing == {"t2"}
Contents == {"x"}

NewLayer(parent) ==
    [ shown |-> TRUE, parent |-> parent, children |-> <<>>, html |-> "",
      delegatedListeners |-> <<>>, masterHandlers |-> {},
      elementListeners |-> <<>>, cleanupTasks |-> <<>> ]

\* what an observer of the layer tree sees: the cleanup tasks called, the
\* listeners removed, the layers unregistered, and what a call returned
Ev(e, a, b, n) == [e |-> e, a |-> a, b |-> b, n |-> n]
Note(w, e) == IF w.obs.noting THEN [w EXCEPT !.trace = Append(@, e)] ELSE w
Result(w, v) == IF w.obs.noting THEN [w EXCEPT !.obs.result = v] ELSE w

has(w, name) == name \in DOMAIN w.layers

\* the UILayer object behind r: the layer registered as r, or an object
\* that was destroyed while the host kept the reference r to it
Obj(w, r) == IF r \in DOMAIN w.layers THEN w.layers[r] ELSE w.detached[r]

SetObj(w, r, l) ==
    IF r \in DOMAIN w.layers THEN [w EXCEPT !.layers[r] = l]
    ELSE [w EXCEPT !.detached[r] = l]

RemoveOne(s, x) ==
    LET idx == {i \in 1..Len(s) : s[i] = x}
    IN  IF idx = {} THEN s
        ELSE LET k == CHOOSE i \in idx : \A j \in idx : i <= j
             IN  SubSeq(s, 1, k - 1) \o SubSeq(s, k + 1, Len(s))

\* UILayerManager.resolveParent: a reference is returned as it is, whether
\* its layer is registered or not; a name is looked up (a reference to the
\* layer registered under a name resolves as the name does)
resolveParent(w, parent) ==
    IF parent = NONE THEN NONE
    ELSE IF parent \in DOMAIN w.detached THEN parent
    ELSE IF has(w, parent) THEN parent ELSE NONE

\* variant: create replaces the layer registered under the name
createOver(w, name, parent) ==
    LET parentLayer == resolveParent(w, parent)
        w1 == [w EXCEPT !.layers = (name :> NewLayer(parentLayer)) @@ @]
    IN  IF parentLayer # NONE
        THEN SetObj(w1, parentLayer,
                    [Obj(w1, parentLayer) EXCEPT !.children = Append(@, name)])
        ELSE w1

\* UILayerManager.create
create(w, name, parent) ==
    IF has(w, name) THEN Result(w, "threw")
    ELSE LET parentLayer == resolveParent(w, parent)
             w1 == [w EXCEPT !.layers = (name :> NewLayer(parentLayer)) @@ @]
             w2 == IF parentLayer # NONE
                   THEN SetObj(w1, parentLayer,
                               [Obj(w1, parentLayer)
                                   EXCEPT !.children = Append(@, name)])
                   ELSE w1
         IN  Result(w2, name)

show(w, name) == [w EXCEPT !.layers[name].shown = TRUE]
hide(w, name) == [w EXCEPT !.layers[name].shown = FALSE]

\* task(): a task of onContainer removes its listener from the container; a
\* task of the host is only observed
RunTask(w, r, t) ==
    LET w1 == Note(w, Ev("task", r, t.id, 0))
    IN  IF t.kind = "removeHost"
        THEN [w1 EXCEPT !.container =
                 @ \ {[eventType |-> t.eventType, callback |-> t.callback]}]
        ELSE w1

RECURSIVE RunCleanupTasksUntilThrow(_, _, _)
\* variant: the exception of a task leaves the loop
RunCleanupTasksUntilThrow(w, r, tasks) ==
    IF tasks = <<>> THEN w
    ELSE IF Head(tasks).throws THEN RunTask(w, r, Head(tasks))
    ELSE RunCleanupTasksUntilThrow(RunTask(w, r, Head(tasks)), r, Tail(tasks))

RECURSIVE RunCleanupTasks(_, _, _)
\* the cleanup tasks of clearListeners, in order; a task that throws is caught
RunCleanupTasks(w, r, tasks) ==
    IF tasks = <<>> THEN w
    ELSE RunCleanupTasks(RunTask(w, r, Head(tasks)), r, Tail(tasks))

\* this.cleanupTasks = []
ForgetTasks(l) == [l EXCEPT !.cleanupTasks = <<>>]

\* UILayer.clearListeners
clearListeners(w, r) ==
    LET w1 == RunCleanupTasks(w, r, Obj(w, r).cleanupTasks)
        l == ForgetTasks(Obj(w1, r))
        w2 == SetObj(w1, r,
                  [l EXCEPT !.elementListeners =
                                SelectSeq(@, LAMBDA t : t \notin l.masterHandlers),
                            !.delegatedListeners = <<>>,
                            !.masterHandlers = {}])
    IN  Note(w2, Ev("unsubscribed", r, NONE, 0))

\* UILayer.html
html(w, name, content) ==
    LET w1 == clearListeners(w, name)
    IN  [w1 EXCEPT !.layers[name].html = content]

\* UILayer.on
on(w, name, eventType, selector, callback) ==
    LET l == w.layers[name]
        l1 == IF eventType \notin l.masterHandlers
              THEN [l EXCEPT !.elementListeners = Append(@, eventType),
                             !.masterHandlers = @ \cup {eventType}]
              ELSE l
    IN  [w EXCEPT !.layers[name] =
            [l1 EXCEPT !.delegatedListeners =
                Append(@, [eventType |-> eventType, selector |-> selector,
                           callback |-> callback])]]

\* variant: off leaves the listener of the element in place
offPairOnly(w, name, eventType, selector, callback) ==
    [w EXCEPT !.layers[name].delegatedListeners =
        SelectSeq(@, LAMBDA dl : ~(/\ dl.eventType = eventType
                                   /\ dl.selector = selector
                                   /\ dl.callback = callback))]

\* UILayer.off
off(w, name, eventType, selector, callback) ==
    LET l == w.layers[name]
        rest == SelectSeq(l.delegatedListeners,
                    LAMBDA dl : ~(/\ dl.eventType = eventType
                                  /\ dl.selector = selector
                                  /\ dl.callback = callback))
        hasMoreForType == \E i \in DOMAIN rest : rest[i].eventType = eventType
        l1 == [l EXCEPT !.delegatedListeners = rest]
    IN  [w EXCEPT !.layers[name] =
            IF ~hasMoreForType /\ eventType \in l.masterHandlers
            THEN [l1 EXCEPT !.elementListeners = RemoveOne(@, eventType),
                            !.masterHandlers = @ \ {eventType}]
            ELSE l1]

\* the callbacks called, in order, when an event of the type reaches the
\* element from a target that matches every selector: each listener
\* installed on the element for the type goes through the delegations
dispatch(l, eventType) ==
    LET installed == SelectSeq(l.elementListeners, LAMBDA t : t = eventType)
        matching == SelectSeq(l.delegatedListeners,
                              LAMBDA dl : dl.eventType = eventType)
        called == [i \in DOMAIN matching |->
                      <<matching[i].selector, matching[i].callback>>]
    IN  IF Len(installed) = 0 THEN <<>>
        ELSE IF Len(installed) = 1 THEN called
        ELSE called \o called

\* UILayer.addCleanupTask
addCleanupTask(w, name, task) ==
    [w EXCEPT !.layers[name].cleanupTasks = Append(@, task)]

\* UILayer.onContainer (the container deduplicates an identical listener)
onContainer(w, name, eventType, callback) ==
    addCleanupTask(
        [w EXCEPT !.container =
            @ \cup {[eventType |-> eventType, callback |-> callback]}],
        name,
        [kind |-> "removeHost", id |-> callback, throws |-> FALSE,
         eventType |-> eventType, callback |-> callback])

\* variant: the children are left in the registry
DestroyNone(w, names) == w

RECURSIVE destroy(_, _)
RECURSIVE DestroyEach(_, _)
\* [...children].forEach(child => manager.destroy(child.name))
DestroyEach(w, names) ==
    IF names = <<>> THEN w
    ELSE DestroyEach(destroy(w, Head(names)), Tail(names))

\* what destroy returns
destroyed(w, name) == IF has(w, name) THEN "true" ELSE "false"

\* UILayerManager.destroy
destroy(w, name) ==
    IF ~has(w, name) THEN Result(w, destroyed(w, name))
    ELSE LET w1 == DestroyEach(w, w.layers[name].children)
             w2 == clearListeners(w1, name)
             p == w2.layers[name].parent
             w3 == IF p # NONE
                   THEN SetObj(w2, p, [Obj(w2, p) EXCEPT
                                          !.children = RemoveOne(@, name)])
                   ELSE w2
             w4 == [w3 EXCEPT !.layers =
                       [n \in (DOMAIN w3.layers) \ {name} |-> w3.layers[n]]]
         IN  Result(Note(w4, Ev("removed", name, NONE, 0)),
                    destroyed(w, name))

\* variant: reset leaves the layers below in place
resetOwn(w, r) ==
    clearListeners(SetObj(w, r, [Obj(w, r) EXCEPT !.html = ""]), r)

\* UILayer.reset
reset(w, r) ==
    LET w1 == DestroyEach(w, Obj(w, r).children)
        w2 == SetObj(w1, r, [Obj(w1, r) EXCEPT !.html = ""])
    IN  clearListeners(w2, r)

-----------------------------------------------------------------------------
(* Registration *)

RECURSIVE CreateMissing(_, _)
\* register: auto-create the layers the resolved config declares
CreateMissing(w, names) ==
    IF names = {} THEN w
    ELSE LET n == CHOOSE x \in names : TRUE
             w1 == IF has(w, n) THEN w ELSE create(w, n, NONE)
         IN  CreateMissing(w1, names \ {n})

\* FocusManager.register
register(w, b) ==
    LET config == build(b)
        finalConfig == resolveInheritance(w.states, config, {})
        w1 == IF IsDef(finalConfig.ui.layers)
              THEN CreateMissing(w, DOMAIN finalConfig.ui.layers[1])
              ELSE w
    IN  [w1 EXCEPT
           !.states = (b.name :> finalConfig) @@ w.states,
           !.managedLayers =
               @ \cup SeqToSet(OrElse(finalConfig.ui.visible, <<>>))
                 \cup SeqToSet(OrElse(finalConfig.ui.preserveOnExit, <<>>))
                 \cup SeqToSet(OrElse(finalConfig.ui.cleanupOnExit, <<>>))]

RECURSIVE RegisterAll(_, _)
RegisterAll(w, names) ==
    IF names = <<>> THEN w
    ELSE RegisterAll(register(w, Builders[Head(names)]), Tail(names))

-----------------------------------------------------------------------------
(* The engine: helpers of FocusManager on the world w *)

DefaultTransitionDuration == 300

\* FocusManager.transitionEffects after _initializeDefaultEffects
TransitionEffects == {"fade", "wipe", "iris"}

\* the layer the constructor creates for the built-in effects
TransitionLayer == "focus-transition-layer"

Log(w, e) == IF w.obs.tracing THEN [w EXCEPT !.trace = Append(@, e)] ELSE w

\* FocusManager.current
current(w) ==
    IF Len(w.stateStack) > 0 THEN w.stateStack[Len(w.stateStack)] ELSE NONE

HasState(w, name) == name \in DOMAIN w.states

\* variant: the effect is not looked up in the registry of effects
getTransitionEffectAny(name) == IF ~IsDef(name) THEN NONE ELSE name[1]

\* FocusManager.getTransitionEffect
getTransitionEffect(name) ==
    IF ~IsDef(name) THEN NONE
    ELSE IF name[1] \notin TransitionEffects THEN NONE
    ELSE name[1]

\* a scoped handler: the closure made for the index-th listener of stateName
Handler(stateName, name, index) ==
    [owner |-> stateName, name |-> name, index |-> index]

RECURSIVE OffEach(_, _)
\* FocusEventBus.off (document.removeEventListener) for each handler of hs
OffEach(installed, hs) ==
    IF hs = {} THEN installed
    ELSE LET h == CHOOSE x \in hs : TRUE
         IN  OffEach(RemoveOne(installed, h), hs \ {h})

RECURSIVE OnEach(_, _, _, _)
\* FocusEventBus.on (document.addEventListener) for the listeners from index i
OnEach(installed, stateName, names, i) ==
    IF i > Len(names) THEN installed
    ELSE OnEach(Append(installed, Handler(stateName, names[i], i)),
                stateName, names, i + 1)

\* FocusManager._deactivateStateEventListeners
deactivateStateEventListeners(w) ==
    [w EXCEPT !.eventBus = OffEach(@, w.activeEventListeners),
              !.activeEventListeners = {}]

\* FocusManager._deactivateStateKeyListeners
deactivateStateKeyListeners(w) ==
    [w EXCEPT !.documentListeners = OffEach(@, w.activeKeyListeners),
              !.activeKeyListeners = {}]

\* the entries of the map of active listeners (key and handler)
ListenerKeys(stateName, names) ==
    {Handler(stateName, names[i], i) : i \in 1..Len(names)}

\* variant: the listeners are added without removing the active ones first
activateStateEventListenersKeep(w, stateName) ==
    IF ~HasState(w, stateName) THEN w
    ELSE IF ~IsDef(w.states[stateName].eventListeners) THEN w
    ELSE LET names == w.states[stateName].eventListeners[1]
         IN  [w EXCEPT
                !.eventBus = OnEach(@, stateName, names, 1),
                !.activeEventListeners =
                    @ \cup ListenerKeys(stateName, names)]

\* FocusManager._activateStateEventListeners
activateStateEventListeners(w, stateName) ==
    LET w1 == deactivateStateEventListeners(w)
    IN  IF ~HasState(w, stateName) THEN w1
        ELSE IF ~IsDef(w.states[stateName].eventListeners) THEN w1
        ELSE LET names == w.states[stateName].eventListeners[1]
             IN  [w1 EXCEPT
                    !.eventBus = OnEach(@, stateName, names, 1),
                    !.activeEventListeners =
                        @ \cup ListenerKeys(stateName, names)]

\* FocusManager._activateStateKeyListeners
activateStateKeyListeners(w, stateName) ==
    LET w1 == deactivateStateKeyListeners(w)
    IN  IF ~HasState(w, stateName) THEN w1
        ELSE IF ~IsDef(w.states[stateName].keyListeners) THEN w1
        ELSE LET names == w.states[stateName].keyListeners[1]
             IN  [w1 EXCEPT
                    !.documentListeners = OnEach(@, stateName, names, 1),
                    !.activeKeyListeners =
                        @ \cup ListenerKeys(stateName, names)]

\* listener.callback(this, payload): the callback a state registered with
\* onEvent or onKey is called (observed: whether its state is on top)
Callback(w, h) ==
    [w EXCEPT !.obs.invoked = TRUE,
              !.obs.staleInvoked = @ \/ current(w) # h.owner]

\* variant: a handler that does not look at the current state
ScopedCallbackAlways(w, h) == Callback(w, h)

\* scopedCallback of _activateStateEventListeners, and handler of
\* _activateStateKeyListeners once the key has matched
ScopedCallback(w, h) ==
    IF current(w) = h.owner THEN Callback(w, h)
    ELSE [w EXCEPT !.obs.staleSkipped = TRUE]

\* the handlers the host registers on the bus by itself, and what each does
\* when it is called
HostCallbacks ==
    [ h1 |-> [does |-> "nothing", other |-> NONE],
      h2 |-> [does |-> "off", other |-> "h2"],
      h3 |-> [does |-> "off", other |-> "h1"],
      h4 |-> [does |-> "on", other |-> "h1"],
      h5 |-> [does |-> "throw", other |-> NONE] ]

\* FocusEventBus.on
busOn(w, name, cb) ==
    [w EXCEPT !.eventBus = Append(@, Handler("host", name, cb))]

\* FocusEventBus.off
busOff(w, name, cb) ==
    [w EXCEPT !.eventBus = RemoveOne(@, Handler("host", name, cb))]

\* listener(payload) for a handler of the host
HostCallback(w, h) ==
    LET c == HostCallbacks[h.index]
        w1 == Note(w, Ev("called", h.index, h.name, 0))
    IN  CASE c.does = "off" -> busOff(w1, h.name, c.other)
          [] c.does = "on" -> busOn(w1, h.name, c.other)
          [] OTHER -> w1

\* try { listener(payload) } catch (e) { console.error(...) }
Listener(w, h) ==
    IF h.owner = "host" THEN HostCallback(w, h) ELSE ScopedCallback(w, h)

RECURSIVE emitLive(_, _, _)
\* variant: the list itself is walked, as the handlers leave it
emitLive(w, hs, name) ==
    IF hs = <<>> THEN w
    ELSE LET w1 == IF Head(hs).name = name THEN Listener(w, Head(hs)) ELSE w
             left == SelectSeq(Tail(hs),
                         LAMBDA h : \E i \in DOMAIN w1.eventBus :
                                        w1.eventBus[i] = h)
             added == SelectSeq(w1.eventBus,
                         LAMBDA h : ~\E i \in DOMAIN w.eventBus :
                                         w.eventBus[i] = h)
         IN  emitLive(w1, left \o added, name)

RECURSIVE emit(_, _, _)
\* FocusEventBus.emit: the handlers of the event, over a copy of the list
emit(w, hs, name) ==
    IF hs = <<>> THEN w
    ELSE emit(IF Head(hs).name = name THEN Listener(w, Head(hs)) ELSE w,
              Tail(hs), name)

\* FocusManager._emitSwitchEvent (the onSwitch listeners see the pair)
emitSwitchEvent(w, newState, oldState) ==
    Log(w, Ev("emit", newState, oldState, 0))

\* the set of layers _updateUiVisibility shows
VisibleSet(w) ==
    IF current(w) = NONE THEN {}
    ELSE SeqToSet(OrElse(w.states[current(w)].ui.visible, <<>>))

\* FocusManager._updateUiVisibility
\* variant: a sweep that shows the visible set and hides nothing
updateUiVisibilityShowOnly(w) ==
    LET vis == VisibleSet(w)
        w1 == [w EXCEPT !.layers =
                 [n \in DOMAIN w.layers |->
                     IF n \in w.managedLayers /\ n \in vis
                     THEN [w.layers[n] EXCEPT !.shown = TRUE]
                     ELSE w.layers[n]],
                 !.obs.swept = w.managedLayers \cap DOMAIN w.layers]
    IN  Log(w1, Ev("visibility", current(w), NONE, 0))

updateUiVisibility(w) ==
    LET vis == VisibleSet(w)
        w1 == [w EXCEPT !.layers =
                 [n \in DOMAIN w.layers |->
                     IF n \in w.managedLayers
                     THEN [w.layers[n] EXCEPT !.shown = (n \in vis)]
                     ELSE w.layers[n]],
                 \* observed: the managed layers that exist at this point
                 !.obs.swept = w.managedLayers \cap DOMAIN w.layers]
    IN  Log(w1, Ev("visibility", current(w), NONE, 0))

-----------------------------------------------------------------------------
(* Frames *)

Slots == 1..MaxInFlight

IdleFrame ==
    [ kind |-> NONE, name |-> NONE, payload |-> 0, pc |-> "idle",
      prev |-> NONE, resume |-> NONE, effect |-> NONE, dur |-> 0,
      exiting |-> NONE, dest |-> NONE, ci |-> 0, hi |-> 0, item |-> 0,
      ev |-> 0, hv |-> 0, call |-> 0 ]

At(w, o, pc) == [w EXCEPT !.ops[o].pc = pc]

\* the call returns: its promise resolves
Complete(w, o) ==
    LET f == w.ops[o]
    IN  [Log(w, Ev("done", f.kind, f.name, f.call))
            EXCEPT !.ops[o] = IdleFrame]

\* variant: the exception is caught and the call goes on
ThrowSwallowed(w, o) == [w EXCEPT !.obs.threw = TRUE]

\* an exception leaves the call: its promise rejects
Throw(w, o) ==
    LET f == w.ops[o]
    IN  [Log(w, Ev("rejected", f.kind, f.name, f.call))
            EXCEPT !.ops[o] = IdleFrame,
                   !.obs.threw = TRUE]

\* a hook of builder b throws, or the promise it returned rejects: the
\* awaits of the combined hook, of _exitState and of the call pass it on
HookThrows(w, o, b) ==
    Throw(Log(w, Ev("hookThrew", b, NONE, w.ops[o].call)), o)

-----------------------------------------------------------------------------
(* Leaving a state: FocusManager._exitState and the combined onExit *)

\* the synchronous part of exit hook hi of builder b
RunExitHook(w, b, hi, dest) ==
    LET h == Builders[b].onExitHooks[hi]
        w1 == Log(w, Ev("exitHook", b, dest, hi))
    IN  IF h.kind = "destroy"
        THEN [w1 EXCEPT
                !.scene = @ \ SeqToSet(w.instantiatedPrefabs[h.group]),
                !.instantiatedPrefabs[h.group] = <<>>]
        ELSE w1

\* the combined onExit of the ci-th builder of the chain, up to its first await
StartBuilderExit(w, o, ci) ==
    LET f == w.ops[o]
        b == w.states[f.exiting].onExit[ci]
        w1 == Log([w EXCEPT !.entryVersion[b] = @ + 1,
                            !.ops[o].ci = ci, !.ops[o].pc = "exitHook"],
                  Ev("exitBegin", b, f.dest, 0))
    IN  IF Builders[b].onExitHooks = <<>>
        THEN [w1 EXCEPT !.ops[o].hi = 0]
        ELSE [RunExitHook(w1, b, 1, f.dest) EXCEPT !.ops[o].hi = 1]

\* observed: the layers as _exitState finds them
ExitBegins(w) ==
    IF w.obs.tracing THEN [w EXCEPT !.obs.exitBegin = w.layers] ELSE w

\* variant: the exit hook receives the entry below instead of the destination
BeginExitStateBelow(w, o, stateName, dest) ==
    LET n == Len(w.stateStack)
        below == IF n >= 2 THEN w.stateStack[n - 1] ELSE dest
        w1 == [ExitBegins(w) EXCEPT !.ops[o].exiting = stateName,
                                    !.ops[o].dest = below]
    IN  IF ~HasState(w, stateName) THEN At(w1, o, "exitRet")
        ELSE StartBuilderExit(Log(w1, Ev("onExit", stateName, below, 0)), o, 1)

\* _exitState up to its await of the combined onExit
BeginExitState(w, o, stateName, dest) ==
    LET w1 == [ExitBegins(w) EXCEPT !.ops[o].exiting = stateName,
                                    !.ops[o].dest = dest]
    IN  IF ~HasState(w, stateName) THEN At(w1, o, "exitRet")
        ELSE StartBuilderExit(Log(w1, Ev("onExit", stateName, dest, 0)), o, 1)

RECURSIVE ResetVisible(_, _, _)
\* _exitState step 2: reset and hide the visible layers that are not preserved
ResetVisible(w, visibleLayers, layersToPreserve) ==
    IF visibleLayers = <<>> THEN w
    ELSE LET n == Head(visibleLayers)
             w1 == IF n \notin layersToPreserve /\ has(w, n)
                   THEN hide(reset(w, n), n) ELSE w
         IN  ResetVisible(w1, Tail(visibleLayers), layersToPreserve)

RECURSIVE CleanupListeners(_, _)
\* _exitState step 3: clearListeners on the cleanupOnExit layers
CleanupListeners(w, names) ==
    IF names = <<>> THEN w
    ELSE LET n == Head(names)
         IN  CleanupListeners(IF has(w, n) THEN clearListeners(w, n) ELSE w,
                              Tail(names))

\* variant: every visible layer is reset, the preserved ones too
exitStateResetAll(w, stateName) ==
    LET cfg == w.states[stateName]
        w1 == ResetVisible(w, OrElse(cfg.ui.visible, <<>>), {})
        w2 == CleanupListeners(w1, OrElse(cfg.ui.cleanupOnExit, <<>>))
    IN  Log(w2, Ev("exitDone", stateName, NONE, 0))

\* _exitState after its await
exitStateReset(w, stateName) ==
    LET cfg == w.states[stateName]
        w1 == ResetVisible(w, OrElse(cfg.ui.visible, <<>>),
                           SeqToSet(OrElse(cfg.ui.preserveOnExit, <<>>)))
        w2 == CleanupListeners(w1, OrElse(cfg.ui.cleanupOnExit, <<>>))
    IN  Log(w2, Ev("exitDone", stateName, NONE, 0))

\* an awaited exit hook has finished: the next hook, the next builder of the
\* chain, or the rest of _exitState
ResumeExitHook(w, o) ==
    LET f == w.ops[o]
        chain == w.states[f.exiting].onExit
        b == chain[f.ci]
    IN  IF f.hi < Len(Builders[b].onExitHooks)
        THEN [RunExitHook(w, b, f.hi + 1, f.dest) EXCEPT !.ops[o].hi = f.hi + 1]
        ELSE LET w1 == Log(w, Ev("exitEnd", b, f.dest, 0))
             IN  IF f.ci < Len(chain) THEN StartBuilderExit(w1, o, f.ci + 1)
                 ELSE At(exitStateReset(w1, f.exiting), o, "exitRet")

-----------------------------------------------------------------------------
(* Entering a state: the combined onEnter of FocusState.build and the hooks *)
(* of withPrefabs, withPrefabsBatched and ensureLayer                       *)

Inst(call, ci, group, item) ==
    [call |-> call, ci |-> ci, group |-> group, item |-> item]

EnterChain(w, o) == w.states[w.ops[o].name].onEnter
EnterBuilder(w, o) == EnterChain(w, o)[w.ops[o].ci]
EnterHook(w, o) == Builders[EnterBuilder(w, o)].onEnterHooks[w.ops[o].hi]

RECURSIVE AttachDelegated(_, _)
\* _delegatedListeners.forEach(l => ui.find(l.layerName).on(...)); find throws
AttachDelegated(r, ls) ==
    IF ~r.ok \/ ls = <<>> THEN r
    ELSE LET l == Head(ls)
         IN  IF ~has(r.w, l.layerName) THEN [r EXCEPT !.ok = FALSE]
             ELSE AttachDelegated(
                      [r EXCEPT !.w = on(r.w, l.layerName, l.eventType,
                                         l.selector, l.callback)],
                      Tail(ls))

RECURSIVE AttachContainer(_, _)
\* _containerListeners.forEach(l => ui.find(l.layerName).onContainer(...))
AttachContainer(r, ls) ==
    IF ~r.ok \/ ls = <<>> THEN r
    ELSE LET l == Head(ls)
         IN  IF ~has(r.w, l.layerName) THEN [r EXCEPT !.ok = FALSE]
             ELSE AttachContainer(
                      [r EXCEPT !.w = onContainer(r.w, l.layerName,
                                                  l.eventType, l.callback)],
                      Tail(ls))

\* combined onEnter after its last hook: the cancellation check and the
\* attachment of the delegated and container listeners
FinalCheck(w, o) ==
    LET f == w.ops[o]
        b == EnterBuilder(w, o)
    IN  IF f.ev # w.entryVersion[b]
        THEN At(Log(w, Ev("attachCancelled", b, NONE, 0)), o, "enterRet")
        ELSE LET r1 == AttachDelegated([w |-> w, ok |-> TRUE],
                                       Builders[b].delegatedListeners)
                 r2 == AttachContainer(r1, Builders[b].containerListeners)
             IN  IF r2.ok
                 THEN At(Log(r2.w, Ev("attached", b, NONE, 0)), o, "enterRet")
                 ELSE HookThrows(r2.w, o, b)

\* withPrefabsBatched: the head of the loop for the item-th prefab name
BatchedNext(w, o, item) ==
    LET f == w.ops[o]
        b == EnterBuilder(w, o)
        g == EnterHook(w, o).group
    IN  IF item > Len(PrefabGroups[g].names) THEN At(w, o, "enterHook")
        ELSE IF f.hv # w.entryVersion[b]
        THEN At([w EXCEPT
                   !.scene = @ \ SeqToSet(w.instantiatedPrefabs[g]),
                   !.instantiatedPrefabs[g] = <<>>], o, "enterHook")
        ELSE [w EXCEPT !.ops[o].item = item, !.ops[o].pc = "enterInst"]

\* the combined onEnter calls hook hi: the hook's code up to its first await
StartEnterHook(w, o, hi) ==
    LET b == EnterBuilder(w, o)
        h == Builders[b].onEnterHooks[hi]
        \* observed: the hook is called although an exit has begun since
        \* the combined onEnter was called
        stale == w.ops[o].ev # w.entryVersion[b]
        w0 == Log([w EXCEPT !.ops[o].hi = hi,
                            !.obs.staleHookStarted = @ \/ stale],
                  Ev("enterHook", b, NONE, hi))
    IN  CASE h.kind = "render" ->
                IF ~has(w0, h.layer) THEN HookThrows(w0, o, b)
                ELSE At(on(html(w0, h.layer, b), h.layer, "click", ".ui", b),
                        o, "enterHook")
          [] h.kind = "ensure" ->
                At(IF has(w0, h.layer) THEN w0
                   ELSE create(w0, h.layer, h.parent), o, "enterHook")
          [] h.kind = "prefabs" ->
                [w0 EXCEPT !.ops[o].hv = w.entryVersion[b],
                           !.instantiatedPrefabs[h.group] = <<>>,
                           !.ops[o].pc = "enterInst"]
          [] h.kind = "batched" ->
                BatchedNext([w0 EXCEPT !.ops[o].hv = w.entryVersion[b],
                                       !.instantiatedPrefabs[h.group] = <<>>],
                            o, 1)
          [] OTHER -> At(w0, o, "enterHook")

\* the combined onEnter of the ci-th builder of the chain is called
StartBuilderEnter(w, o, ci) ==
    LET b == EnterChain(w, o)[ci]
        w1 == Log([w EXCEPT !.ops[o].ci = ci, !.ops[o].hi = 0,
                            !.ops[o].ev = w.entryVersion[b]],
                  Ev("enterBegin", b, NONE, w.ops[o].payload))
    IN  IF Builders[b].onEnterHooks = <<>> THEN FinalCheck(w1, o)
        ELSE StartEnterHook(w1, o, 1)

\* the awaited instantiation of a prefab hook resolves
ResumeEnterInst(w, o) ==
    LET f == w.ops[o]
        b == EnterBuilder(w, o)
        g == EnterHook(w, o).group
        names == PrefabGroups[g].names
    IN  IF EnterHook(w, o).kind = "prefabs"
        THEN LET instances == [i \in 1..Len(names) |-> Inst(f.call, f.ci, g, i)]
             IN  IF f.hv # w.entryVersion[b]
                 THEN At(Log([w EXCEPT !.obs.staleInst =
                                  @ \cup SeqToSet(instances)],
                             Ev("cancelled", b, g, 0)), o, "enterHook")
                 ELSE At([w EXCEPT
                            !.scene = @ \cup SeqToSet(instances),
                            !.instantiatedPrefabs[g] = @ \o instances],
                         o, "enterHook")
        ELSE LET w1 == [w EXCEPT
                          \* observed: instantiated after an exit began
                          !.obs.staleInst =
                              IF f.hv # w.entryVersion[b]
                              THEN @ \cup {Inst(f.call, f.ci, g, f.item)}
                              ELSE @,
                          !.scene = @ \cup {Inst(f.call, f.ci, g, f.item)},
                          !.instantiatedPrefabs[g] =
                              Append(@, Inst(f.call, f.ci, g, f.item))]
             IN  IF PrefabGroups[g].delayMs > 0 THEN At(w1, o, "enterDelay")
                 ELSE BatchedNext(w1, o, f.item + 1)

\* the delay between two batched instantiations has elapsed
ResumeEnterDelay(w, o) == BatchedNext(w, o, w.ops[o].item + 1)

\* an awaited enter hook has finished: the next hook, or the final check
ResumeEnterHook(w, o) ==
    LET f == w.ops[o]
    IN  IF f.hi < Len(Builders[EnterBuilder(w, o)].onEnterHooks)
        THEN StartEnterHook(w, o, f.hi + 1)
        ELSE FinalCheck(w, o)

-----------------------------------------------------------------------------
(* switch, push and pop between their awaits *)

TransitionTo(f) == IF f.kind = "pop" THEN f.resume ELSE f.name

\* transition.onExit of a built-in effect up to its first await: the
\* transition layer is shown
StartTransitionExit(w, o) ==
    LET f == w.ops[o]
    IN  At(Log(show(w, TransitionLayer),
               Ev("transExit", f.prev, TransitionTo(f), f.dur)), o, "transExit")

\* transition.onEnter of a built-in effect up to its first await
StartTransitionEnter(w, o) ==
    LET f == w.ops[o]
    IN  At(Log(w, Ev("transEnter", current(w), f.prev, f.dur)), o, "transEnter")

\* variant: the listeners and the layers are set before the stack and the
\* notification
EnterNewStateNotifyLast(w, o) ==
    LET f == w.ops[o]
        w1 == [w EXCEPT !.stateStack = Append(@, f.name),
                        !.obs.entered = TRUE]
        w3 == activateStateKeyListeners(
                  activateStateEventListeners(w1, f.name), f.name)
        w4 == updateUiVisibility(Log(w3, Ev("activate", f.name, NONE, 0)))
        w5 == emitSwitchEvent(Log(w4, Ev("push", f.name, NONE, 0)),
                              f.name, f.prev)
    IN  StartBuilderEnter(Log(w5, Ev("onEnter", f.name, NONE, f.payload)), o, 1)

\* switch / push: "Enter New State" up to the first await of onEnter
EnterNewState(w, o) ==
    LET f == w.ops[o]
        w1 == [w EXCEPT !.stateStack = Append(@, f.name),
                        !.obs.entered = TRUE]
        w2 == emitSwitchEvent(Log(w1, Ev("push", f.name, NONE, 0)),
                              f.name, f.prev)
        w3 == activateStateKeyListeners(
                  activateStateEventListeners(w2, f.name), f.name)
        w4 == updateUiVisibility(Log(w3, Ev("activate", f.name, NONE, 0)))
    IN  StartBuilderEnter(Log(w4, Ev("onEnter", f.name, NONE, f.payload)), o, 1)

\* pop: "Resume New Top State" and the enter transition
ResumeNewTop(w, o) ==
    LET f == w.ops[o]
        w1 == emitSwitchEvent(w, current(w), f.prev)
        w2 == activateStateKeyListeners(
                  activateStateEventListeners(w1, current(w)), current(w))
        w3 == updateUiVisibility(Log(w2, Ev("activate", current(w), NONE, 0)))
    IN  IF f.effect # NONE THEN StartTransitionEnter(w3, o)
        ELSE Complete(w3, o)

\* variant: a push that exits the stack like a switch
AfterTransitionExitPushExits(w, o) ==
    LET f == w.ops[o]
    IN  CASE f.kind = "switch" ->
                IF Len(w.stateStack) > 0
                THEN BeginExitState(w, o, current(w), f.name)
                ELSE EnterNewState(w, o)
          [] f.kind = "push" ->
                IF Len(w.stateStack) > 0
                THEN BeginExitState(w, o, current(w), f.name)
                ELSE EnterNewState(w, o)
          [] OTHER -> BeginExitState(w, o, f.prev, f.resume)

\* the code after the exit transition
AfterTransitionExit(w, o) ==
    LET f == w.ops[o]
    IN  CASE f.kind = "switch" ->
                IF Len(w.stateStack) > 0
                THEN BeginExitState(w, o, current(w), f.name)
                ELSE EnterNewState(w, o)
          [] f.kind = "push" -> EnterNewState(w, o)
          [] OTHER -> BeginExitState(w, o, f.prev, f.resume)

\* variant: pop reads the transition of the state it resumes
TransitionConfigResumed(w, f) ==
    IF f.kind = "pop"
    THEN (IF Len(w.stateStack) >= 2 THEN w.stateStack[Len(w.stateStack) - 1]
          ELSE current(w))
    ELSE f.name

\* the state whose config gives the transition: newStateConfig in switch and
\* push, stateToPopConfig in pop
TransitionConfig(w, f) == IF f.kind = "pop" THEN current(w) ELSE f.name

\* the code after `await new Promise(resolve => RE.onNextFrame(resolve))`
ResumeNextFrame(w, o) ==
    LET f == w.ops[o]
        top == current(w)
        cfgName == TransitionConfig(w, f)
    IN  IF f.kind = "pop" /\ top = NONE THEN Throw(w, o)
        ELSE
        LET cfg == w.states[cfgName]
            w1 == [w EXCEPT
                     !.ops[o].prev = top,
                     !.ops[o].resume =
                         IF f.kind = "pop" /\ Len(w.stateStack) >= 2
                         THEN w.stateStack[Len(w.stateStack) - 1] ELSE NONE,
                     !.ops[o].effect =
                         getTransitionEffect(cfg.transitionEffectName),
                     !.ops[o].dur =
                         OrElse(cfg.transitionDuration,
                                DefaultTransitionDuration)]
            w2 == Log(deactivateStateKeyListeners(
                          deactivateStateEventListeners(w1)),
                      Ev("deactivate", NONE, NONE, 0))
        IN  IF w2.ops[o].effect # NONE THEN StartTransitionExit(w2, o)
            ELSE AfterTransitionExit(w2, o)

\* the code after `await transition.onExit(...)`
ResumeTransitionExit(w, o) ==
    AfterTransitionExit(Log(w, Ev("transExitEnd", NONE, NONE, 0)), o)

\* variant: a switch that exits the top entry only
ResumeExitStateOnce(w, o) ==
    LET f == w.ops[o]
        n == Len(w.stateStack)
        w1 == Log([w EXCEPT !.stateStack =
                      IF n > 0 THEN SubSeq(@, 1, n - 1) ELSE @],
                  Ev("pop", current(w), f.exiting, 0))
    IN  IF f.kind = "switch" THEN EnterNewState(w1, o)
        ELSE ResumeNewTop(w1, o)

\* the code after `await this._exitState(...)`: this._stateStack.pop() and on
ResumeExitState(w, o) ==
    LET f == w.ops[o]
        n == Len(w.stateStack)
        w1 == Log([w EXCEPT !.stateStack =
                      IF n > 0 THEN SubSeq(@, 1, n - 1) ELSE @],
                  Ev("pop", current(w), f.exiting, 0))
    IN  IF f.kind = "switch"
        THEN IF Len(w1.stateStack) > 0
             THEN BeginExitState(w1, o, current(w1), f.name)
             ELSE EnterNewState(w1, o)
        ELSE ResumeNewTop(w1, o)

\* the code after `await newStateConfig.onEnter?.(payload, ui)`, or the next
\* builder of an inherited chain
ResumeEnterState(w, o) ==
    LET f == w.ops[o]
    IN  IF f.ci < Len(EnterChain(w, o)) THEN StartBuilderEnter(w, o, f.ci + 1)
        ELSE LET w1 == Log(w, Ev("onEnterDone", f.name, NONE, 0))
             IN  IF f.effect # NONE THEN StartTransitionEnter(w1, o)
                 ELSE Complete(w1, o)

\* transition.onEnter of a built-in effect ends: the transition layer is hidden
ResumeTransitionEnter(w, o) ==
    Complete(Log(hide(w, TransitionLayer), Ev("transEnterEnd", NONE, NONE, 0)), o)

\* variant: switch does not look the name up
switchReturnsEarlyUnchecked(w, name) ==
    current(w) = name /\ Len(w.stateStack) = 1

\* variant: push does not compare the name with the current state
pushReturnsEarlyUnregistered(w, name) == ~HasState(w, name)

\* the early returns of switch, push and pop
switchReturnsEarly(w, name) ==
    (current(w) = name /\ Len(w.stateStack) = 1) \/ ~HasState(w, name)

pushReturnsEarly(w, name) == current(w) = name \/ ~HasState(w, name)

\* variant: pop has no guard
popReturnsEarlyNever(w) == FALSE

\* variant: a guard that refuses only an empty stack
popReturnsEarlyBelowOne(w) == Len(w.stateStack) < 1

popReturnsEarly(w) == Len(w.stateStack) <= 1

ReturnsEarly(w, kind, name) ==
    CASE kind = "switch" -> switchReturnsEarly(w, name)
      [] kind = "push" -> pushReturnsEarly(w, name)
      [] OTHER -> popReturnsEarly(w)

-----------------------------------------------------------------------------
(* The state machine *)

W == [ states |-> states, managedLayers |-> managedLayers,
       stateStack |-> stateStack,
       activeEventListeners |-> activeEventListeners,
       activeKeyListeners |-> activeKeyListeners, layers |-> layers,
       detached |-> detached,
       eventBus |-> eventBus, documentListeners |-> documentListeners,
       container |-> container, entryVersion |-> entryVersion,
       instantiatedPrefabs |-> instantiatedPrefabs, scene |-> scene,
       ops |-> ops, calls |-> calls, trace |-> trace,
       prevTrace |-> prevTrace, obs |-> obs ]

Commit(w) ==
    /\ states' = w.states
    /\ managedLayers' = w.managedLayers
    /\ stateStack' = w.stateStack
    /\ activeEventListeners' = w.activeEventListeners
    /\ activeKeyListeners' = w.activeKeyListeners
    /\ eventBus' = w.eventBus
    /\ documentListeners' = w.documentListeners
    /\ layers' = w.layers
    /\ detached' = w.detached
    /\ container' = w.container
    /\ entryVersion' = w.entryVersion
    /\ instantiatedPrefabs' = w.instantiatedPrefabs
    /\ scene' = w.scene
    /\ ops' = w.ops
    /\ calls' = w.calls
    /\ trace' = w.trace
    /\ prevTrace' = w.prevTrace
    /\ obs' = w.obs

\* the world after `new FocusManager()`: the transition layer exists, hidden
Constructed ==
    [ states |-> <<>>, managedLayers |-> {}, stateStack |-> <<>>,
      activeEventListeners |-> {}, activeKeyListeners |-> {},
      eventBus |-> <<>>, documentListeners |-> <<>>,
      layers |-> (TransitionLayer :> [NewLayer(NONE) EXCEPT !.shown = FALSE]),
      detached |-> <<>>, container |-> {},
      entryVersion |-> [b \in BuilderNames |-> 0],
      instantiatedPrefabs |-> [g \in GroupNames |-> <<>>],
      scene |-> {},
      ops |-> [o \in Slots |-> IdleFrame],
      calls |-> <<>>, trace |-> <<>>, prevTrace |-> <<>>,
      obs |-> [nCalls |-> 0, budget |-> 0, tracing |-> TRUE,
               pushes |-> 0, pops |-> 0, switched |-> FALSE,
               entered |-> FALSE, threw |-> FALSE,
               staleHookStarted |-> FALSE, staleInst |-> {}, swept |-> {},
               invoked |-> FALSE, staleSkipped |-> FALSE,
               staleInvoked |-> FALSE, exitBegin |-> <<>>,
               registered |-> <<>>,
               noting |-> FALSE, result |-> NONE, op |-> NONE, ref |-> NONE,
               arg |-> NONE, pending |-> {}] ]

\* start(): the global layer is created and rendered by hand, then the
\* builders are registered
Started ==
    LET w1 == create(Constructed, "hud", NONE)
        w2 == on(html(w1, "hud", "hud"), "hud", "click", ".ui", "hud")
    IN  RegisterAll(w2, RegistrationOrder)

Busy(w) == {o \in Slots : w.ops[o].pc # "idle"}
FreeSlot(w) == CHOOSE o \in Slots \ Busy(w) : \A p \in Slots \ Busy(w) : o <= p

LastTwo(s) == IF Len(s) > 2 THEN SubSeq(s, Len(s) - 1, Len(s)) ELSE s

\* variant: the call goes on without waiting for the next frame
SuspendedNever(kind, name, n) ==
    [IdleFrame EXCEPT !.kind = kind, !.name = name,
                      !.payload = n, !.call = n, !.pc = "exitRet"]

\* await new Promise(resolve => RE.onNextFrame(resolve)): the call is
\* suspended until the next frame
Suspended(kind, name, n) ==
    [IdleFrame EXCEPT !.kind = kind, !.name = name,
                      !.payload = n, !.call = n, !.pc = "yield"]

\* the host calls switch(name, payload), push(name, payload) or pop(): the
\* code before the first await
Invoke(w, kind, name) ==
    LET n == w.obs.nCalls + 1
        accepted == ~ReturnsEarly(w, kind, name)
        \* what the caller can tell about its own request
        registered == name \in DOMAIN w.states
        validSwitch == kind = "switch" /\ registered
        validPush == kind = "push" /\ registered /\ current(w) # name
        validPop == kind = "pop" /\ Len(w.stateStack) >= 2
        rec == [ kind |-> kind, name |-> name, accepted |-> accepted,
                 stackBefore |-> w.stateStack, layersBefore |-> w.layers,
                 n |-> n,
                 during |-> {[kind |-> w.ops[o].kind, name |-> w.ops[o].name,
                              pc |-> w.ops[o].pc, call |-> w.ops[o].call] :
                                o \in Busy(w)} ]
        w1 == [w EXCEPT
                 !.calls = LastTwo(Append(@, rec)),
                 !.prevTrace = w.trace, !.trace = <<>>,
                 !.obs.nCalls = n,
                 !.obs.budget = @ - 1,
                 !.obs.switched = @ \/ validSwitch,
                 !.obs.pushes =
                     IF validSwitch THEN 0 ELSE IF validPush THEN @ + 1 ELSE @,
                 !.obs.pops =
                     IF validSwitch THEN 0 ELSE IF validPop THEN @ + 1 ELSE @]
    IN  IF accepted
        THEN [w1 EXCEPT !.ops[FreeSlot(w)] = Suspended(kind, name, n)]
        ELSE w1

Requests ==
    {<<"switch", t>> : t \in Targets} \cup {<<"push", t>> : t \in Targets}
        \cup {<<"pop", NONE>>}

\* a call issued when no other call is in flight
SerialCall ==
    /\ obs.budget > 0
    /\ Busy(W) = {}
    /\ \E r \in Requests : Commit(Invoke(W, r[1], r[2]))

\* the names passed to the calls that may overlap
ConcTargets == {"lobby", "game"}

ConcRequests ==
    {<<"switch", t>> : t \in ConcTargets}
        \cup {<<"push", t>> : t \in ConcTargets} \cup {<<"pop", NONE>>}

\* a call issued at any time
OverlappingCall ==
    /\ obs.budget > 0
    /\ Busy(W) # Slots
    /\ \E r \in ConcRequests : Commit(Invoke(W, r[1], r[2]))

Resume(pc, o) == ops[o].pc = pc

Yielded(w) == {o \in Slots : w.ops[o].pc = "yield"}

RECURSIVE ResumeYielded(_)
\* the next frame: the callbacks passed to RE.onNextFrame resolve their
\* promises in the order in which they were passed, and each continuation
\* runs up to its first await before the next one starts
ResumeYielded(w) ==
    IF Yielded(w) = {} THEN w
    ELSE LET o == CHOOSE p \in Yielded(w) :
                      \A q \in Yielded(w) : w.ops[p].call <= w.ops[q].call
         IN  ResumeYielded(ResumeNextFrame(w, o))

NextFrame == Yielded(W) # {} /\ Commit(ResumeYielded(W))

TransitionExitDone ==
    \E o \in Slots : Resume("transExit", o) /\ Commit(ResumeTransitionExit(W, o))

ExitHookDone ==
    \E o \in Slots : Resume("exitHook", o) /\ Commit(ResumeExitHook(W, o))

ExitStateDone ==
    \E o \in Slots : Resume("exitRet", o) /\ Commit(ResumeExitState(W, o))

InstantiateDone ==
    \E o \in Slots : Resume("enterInst", o) /\ Commit(ResumeEnterInst(W, o))

DelayElapsed ==
    \E o \in Slots : Resume("enterDelay", o) /\ Commit(ResumeEnterDelay(W, o))

EnterHookDone ==
    \E o \in Slots : Resume("enterHook", o) /\ Commit(ResumeEnterHook(W, o))

EnterStateDone ==
    \E o \in Slots : Resume("enterRet", o) /\ Commit(ResumeEnterState(W, o))

TransitionEnterDone ==
    \E o \in Slots : Resume("transEnter", o) /\ Commit(ResumeTransitionEnter(W, o))

\* the events and keys the host dispatches
EventNames == {"join", "pause"}
KeyNames == {"Escape"}

\* an event is emitted on the bus while the engine is not running
EmitEvent ==
    \E name \in EventNames :
        /\ \E i \in DOMAIN eventBus : eventBus[i].name = name
        /\ Commit(emit(W, eventBus, name))

\* a key goes down: document calls the installed key handlers
KeyDown ==
    \E key \in KeyNames :
        /\ \E i \in DOMAIN documentListeners : documentListeners[i].name = key
        /\ Commit(emit(W, documentListeners, key))

Step ==
    \/ EmitEvent
    \/ KeyDown
    \/ NextFrame
    \/ TransitionExitDone
    \/ ExitHookDone
    \/ ExitStateDone
    \/ InstantiateDone
    \/ DelayElapsed
    \/ EnterHookDone
    \/ EnterStateDone
    \/ TransitionEnterDone

Holds(w) ==
    /\ states = w.states
    /\ managedLayers = w.managedLayers
    /\ stateStack = w.stateStack
    /\ activeEventListeners = w.activeEventListeners
    /\ activeKeyListeners = w.activeKeyListeners
    /\ eventBus = w.eventBus
    /\ documentListeners = w.documentListeners
    /\ layers = w.layers
    /\ detached = w.detached
    /\ container = w.container
    /\ entryVersion = w.entryVersion
    /\ instantiatedPrefabs = w.instantiatedPrefabs
    /\ scene = w.scene
    /\ ops = w.ops
    /\ calls = w.calls
    /\ trace = w.trace
    /\ prevTrace = w.prevTrace
    /\ obs = w.obs

Init == Holds([Started EXCEPT !.obs.budget = MaxCalls])

Next == SerialCall \/ Step

\* every call is awaited before the next is issued
Spec == Init /\ [][Next]_vars

\* the continuation of frame o, whatever it awaits
ResumeFrame(w, o) ==
    LET pc == w.ops[o].pc
    IN  CASE pc = "yield" -> ResumeNextFrame(w, o)
          [] pc = "transExit" -> ResumeTransitionExit(w, o)
          [] pc = "exitHook" -> ResumeExitHook(w, o)
          [] pc = "exitRet" -> ResumeExitState(w, o)
          [] pc = "enterInst" -> ResumeEnterInst(w, o)
          [] pc = "enterDelay" -> ResumeEnterDelay(w, o)
          [] pc = "enterHook" -> ResumeEnterHook(w, o)
          [] pc = "enterRet" -> ResumeEnterState(w, o)
          [] pc = "transEnter" -> ResumeTransitionEnter(w, o)
          [] OTHER -> w

RECURSIVE RunToIdle(_, _)
RunToIdle(w, o) ==
    IF w.ops[o].pc = "idle" THEN w ELSE RunToIdle(ResumeFrame(w, o), o)

RECURSIVE RunSerial(_, _)
\* the world after the calls reqs, each awaited before the next
RunSerial(w, reqs) ==
    IF reqs = <<>> THEN w
    ELSE RunSerial(RunToIdle(Invoke(w, Head(reqs)[1], Head(reqs)[2]), 1),
                   Tail(reqs))

\* the awaited calls that precede the overlapping ones
Prefixes ==
    { <<>>,
      << <<"switch", "lobby">> >>,
      << <<"switch", "pause">> >>,
      << <<"switch", "game">>, <<"push", "pause">> >> }

InitConc ==
    \E p \in Prefixes :
        Holds([RunSerial([Started EXCEPT !.obs.tracing = FALSE], p)
                  EXCEPT !.obs.budget = MaxConcCalls])

NextConc == OverlappingCall \/ Step

\* calls may be issued while earlier calls are suspended
SpecConc == InitConc /\ [][NextConc]_vars

\* the exit hook that frame o awaits
AwaitedExitHook(w, o) ==
    LET f == w.ops[o]
        b == w.states[f.exiting].onExit[f.ci]
    IN  [builder |-> b, kind |-> Builders[b].onExitHooks[f.hi].kind]

\* the promise of an awaited user exit hook rejects
ExitHookThrows ==
    \E o \in Slots :
        /\ ops[o].pc = "exitHook" /\ ops[o].hi >= 1
        /\ AwaitedExitHook(W, o).kind = "user"
        /\ Commit(HookThrows(W, o, AwaitedExitHook(W, o).builder))

NextThrow == SerialCall \/ Step \/ ExitHookThrows

\* every call is awaited, and the user exit hooks may fail
SpecThrow == Init /\ [][NextThrow]_vars

\* the names passed to the calls that try the transition effects
EffectTargets == {"lobby", "game", "over", "credits"}

EffectRequests ==
    {<<"switch", t>> : t \in EffectTargets}
        \cup {<<"push", t>> : t \in EffectTargets} \cup {<<"pop", NONE>>}

\* a call issued when no other call is in flight
EffectCall ==
    /\ obs.budget > 0
    /\ Busy(W) = {}
    /\ \E r \in EffectRequests : Commit(Invoke(W, r[1], r[2]))

NextEffect == EffectCall \/ Step

\* every call is awaited; the targets name a registered effect, an effect
\* that is not registered, an effect without a duration, or none
SpecEffect == Init /\ [][NextEffect]_vars

-----------------------------------------------------------------------------
(* Registration: the host registers builders of its own, in any order, and  *)
(* may register a name again                                                *)

MaxRegs == 4

RegNames == {"a", "b", "c"}

\* the z-index a builder gives the layer "shared"
ZOf(name) == IF name = "a" THEN 10 ELSE IF name = "b" THEN 20 ELSE 30

\* create(name).extends(ext), bare or with ui(), dontResetOnExit(),
\* withPrefabs(), on() and onExit()
RegBuilder(name, ext, full) ==
    IF full
    THEN Builder(name, ext, Some(<<name, "shared">>),
                 Some(("shared" :> ZOf(name)) @@ (name :> 1)),
                 <<name, "shared">>, Undefined, Undefined,
                 << Hook("prefabs", NONE, NONE, name) >>,
                 << Hook("destroy", NONE, NONE, name),
                    Hook("user", NONE, NONE, NONE) >>,
                 << Delegated("shared", "click", ".x", name) >>, <<>>,
                 <<name, "common">>, <<>>, <<>>)
    ELSE Builder(name, ext, Undefined, Undefined, <<>>, Undefined, Undefined,
                 <<>>, <<>>, <<>>, <<>>, <<>>, <<>>, <<>>)

RegBuilders ==
    {RegBuilder(n, e, f) :
        n \in RegNames, e \in {Undefined} \cup {Some(m) : m \in RegNames},
        f \in BOOLEAN}

\* the host calls register(state); observed: the builder and the registry
\* the call found
Register ==
    /\ obs.budget > 0
    /\ \E b \in RegBuilders :
          Commit([register(W, b) EXCEPT
                     !.obs.budget = @ - 1,
                     !.obs.registered = <<[builder |-> b, before |-> states]>>])

InitReg == Holds([Constructed EXCEPT !.obs.budget = MaxRegs])

NextReg == Register

\* a new FocusManager and the register() calls of the host
SpecReg == InitReg /\ [][NextReg]_vars

-----------------------------------------------------------------------------
(* Properties of the state stack *)

Idle == \A o \in Slots : ops[o].pc = "idle"

LastCall == calls[Len(calls)]

\* C1: when every call is awaited before the next, after a switch to a
\* registered state followed by n pushes of a registered state other than
\* the top and m pops at depth two or more, the stack holds 1 + n - m
\* entries; and a pop() called at depth one or less leaves the stack as it was.
StackDepthLaw ==
    /\ (Idle /\ obs.switched) => Len(stateStack) = 1 + obs.pushes - obs.pops
    /\ (calls # <<>> /\ LastCall.kind = "pop" /\ Len(LastCall.stackBefore) <= 1)
          => stateStack = LastCall.stackBefore

\* two pushes and one pop after the switch have completed
StackDepthLawWitness ==
    Idle /\ obs.pushes = 2 /\ obs.pops = 1 /\ Len(stateStack) = 2

\* C2: once a state has been entered the stack is non-empty wherever control
\* is with the host, whether or not calls overlap; pop never removes the
\* last entry.
NeverEmptyOnceEntered == obs.entered => stateStack # <<>>

\* the last call has returned or its promise has resolved
LastCallCompleted ==
    /\ Idle
    /\ calls # <<>>
    /\ LastCall.accepted => (trace # <<>> /\ trace[Len(trace)].e = "done")

\* C3: when a switch to a registered target completes and no other call was
\* made in the meantime, the stack is exactly [target], whatever its depth
\* was before the call.
SwitchLeavesOnlyTarget ==
    (LastCallCompleted /\ LastCall.kind = "switch"
        /\ LastCall.name \in DOMAIN states)
      => stateStack = <<LastCall.name>>

\* a switch called at depth two or more has completed
SwitchLeavesOnlyTargetWitness ==
    /\ LastCallCompleted /\ LastCall.kind = "switch" /\ LastCall.accepted
    /\ Len(LastCall.stackBefore) >= 2
    /\ stateStack = <<LastCall.name>>

-----------------------------------------------------------------------------
(* Cancellation of an entry *)

\* the awaits of a switch or push at which the enter hook of its target has
\* not yet resolved
BeforeEnterResolves ==
    {"yield", "transExit", "exitHook", "exitRet",
     "enterInst", "enterDelay", "enterHook"}

HasPrefabHook(b, kinds) ==
    \E i \in DOMAIN Builders[b].onEnterHooks :
        Builders[b].onEnterHooks[i].kind \in kinds

\* a listener declared on builder b with on() is attached to its layer
DelegatedAttached(b) ==
    \E i \in DOMAIN Builders[b].delegatedListeners :
        LET l == Builders[b].delegatedListeners[i]
        IN  /\ l.layerName \in DOMAIN layers
            /\ \E j \in DOMAIN layers[l.layerName].delegatedListeners :
                   layers[l.layerName].delegatedListeners[j] =
                       [eventType |-> l.eventType, selector |-> l.selector,
                        callback |-> l.callback]

\* a listener declared on builder b with onContainer() is on the host container
ContainerAttached(b) ==
    \E i \in DOMAIN Builders[b].containerListeners :
        LET l == Builders[b].containerListeners[i]
        IN  [eventType |-> l.eventType, callback |-> l.callback] \in container

\* the prefab instances in the scene that call n instantiated
LiveInstancesOf(n) == {i \in scene : i.call = n}

\* the last two calls are switch(X) and then, before X's enter hook has
\* resolved, switch(Y); X instantiates prefabs in its enter hook and was not
\* on the stack
SwitchThenSwitch ==
    /\ Len(calls) = 2
    /\ calls[1].kind = "switch" /\ calls[1].accepted
    /\ calls[2].kind = "switch" /\ calls[2].accepted
    /\ calls[1].name # calls[2].name
    /\ calls[1].name \notin SeqToSet(calls[1].stackBefore)
    /\ HasPrefabHook(calls[1].name, {"prefabs", "batched"})
    /\ \E d \in calls[2].during :
          d.call = calls[1].n /\ d.pc \in BeforeEnterResolves

\* C4: switch(X), X instantiating prefabs in its enter hook, then switch(Y)
\* before X's enter hook resolves: once both have finished, every prefab
\* that X's entry instantiated is destroyed, none of X's on() or
\* onContainer() listeners is attached, and the stack is [Y].
SwitchCancelsPendingEntry ==
    (Idle /\ ~obs.threw /\ SwitchThenSwitch)
      => /\ LiveInstancesOf(calls[1].n) = {}
         /\ ~DelegatedAttached(calls[1].name)
         /\ ~ContainerAttached(calls[1].name)
         /\ stateStack = <<calls[2].name>>

\* C5: when the exit of a state begins while its combined onEnter is
\* suspended in a hook, the entry takes no further action after the hook
\* resumes; in particular no later enter hook of that entry is called.
NoHookAfterExitBegan == ~obs.staleHookStarted

\* the prefab hook of call n has not returned yet
InPrefabHook(n) ==
    \E o \in Slots : ops[o].call = n /\ ops[o].pc \in {"enterInst", "enterDelay"}

\* C6: with withPrefabs and with withPrefabsBatched, when the exit of a
\* state begins while an instantiation of its enter hook is awaited (the
\* last or only one included), every prefab instance of that entry is
\* destroyed by the time the hook returns.
StaleInstancesDestroyed ==
    \A i \in obs.staleInst \cap scene : InPrefabHook(i.call)

-----------------------------------------------------------------------------
(* Order of the hooks *)

IsPrefix(a, b) == Len(a) <= Len(b) /\ SubSeq(b, 1, Len(a)) = a

\* what the last call did about exits: onExit called, _exitState returned,
\* entry removed
ExitEvents == SelectSeq(trace, LAMBDA e : e.e \in {"onExit", "exitDone", "pop"})

\* the exits of a switch to dest called with the given stack, top first
ExpectedExits(stack, dest) ==
    LET n == Len(stack)
    IN  [k \in 1..(3 * n) |->
            LET st == stack[n - ((k - 1) \div 3)]
                r == (k - 1) % 3
            IN  IF r = 0 THEN Ev("onExit", st, dest, 0)
                ELSE IF r = 1 THEN Ev("exitDone", st, NONE, 0)
                ELSE Ev("pop", st, st, 0)]

\* C7: switch(D) called with the stack [A, B, C] runs the combined exit
\* hooks of C, B, A in that order, each to completion before the next
\* begins and before its entry is removed, and each hook receives D.
SwitchExitsTopDown ==
    (calls # <<>> /\ LastCall.kind = "switch" /\ LastCall.accepted
        /\ LastCall.stackBefore # <<>>)
      => LET expected == ExpectedExits(LastCall.stackBefore, LastCall.name)
         IN  /\ IsPrefix(ExitEvents, expected)
             /\ LastCallCompleted => ExitEvents = expected
             /\ \A i \in DOMAIN trace :
                    trace[i].e = "exitHook" => trace[i].b = LastCall.name

\* a switch called with three entries on the stack has completed
SwitchExitsTopDownWitness ==
    /\ LastCallCompleted /\ LastCall.kind = "switch" /\ LastCall.accepted
    /\ Len(LastCall.stackBefore) = 3
    /\ Len(ExitEvents) = 9
    /\ \E i \in DOMAIN trace : trace[i].e = "exitHook"

\* the events named e in a trace
Events(tr, e) == SelectSeq(tr, LAMBDA x : x.e = e)

\* the last two calls are push(P), completed, and then pop()
PushThenPop ==
    /\ Len(calls) = 2
    /\ calls[1].kind = "push" /\ calls[1].accepted
    /\ calls[1].stackBefore # <<>>
    /\ prevTrace # <<>> /\ prevTrace[Len(prevTrace)].e = "done"
    /\ calls[2].kind = "pop" /\ calls[2].accepted

\* C8: for push(P) called with G on top, awaited, and then pop(): the push
\* does not call G's exit hook, the pop does not call G's enter hook, P's
\* enter hook and P's exit hook are each called exactly once, and in the end
\* the stack is what it was before the push, with G on top.
PushPopKeepsBelow ==
    /\ (calls # <<>> /\ LastCall.kind = "push" /\ LastCall.accepted)
          => Events(trace, "onExit") = <<>>
    /\ PushThenPop
          => /\ Events(prevTrace, "onExit") = <<>>
             /\ Events(prevTrace, "onEnter") =
                    <<Ev("onEnter", calls[1].name, NONE, calls[1].n)>>
             /\ Events(trace, "onEnter") = <<>>
             /\ IsPrefix(Events(trace, "onExit"),
                         <<Ev("onExit", calls[1].name,
                              calls[1].stackBefore[Len(calls[1].stackBefore)], 0)>>)
             /\ LastCallCompleted
                   => /\ Len(Events(trace, "onExit")) = 1
                      /\ stateStack = calls[1].stackBefore

\* push(P) and then pop() have completed
PushPopKeepsBelowWitness ==
    /\ PushThenPop /\ LastCallCompleted
    /\ Len(Events(trace, "onExit")) = 1
    /\ stateStack = calls[1].stackBefore

-----------------------------------------------------------------------------
(* Layers across push and pop *)

\* C9: after push(P) and then pop(), each awaited, every layer in the visible
\* set of the resumed state has the content and the listeners it had
\* before the push, also a layer that P shows too and a layer created
\* outside any state.
PopRestoresLayers ==
    (PushThenPop /\ LastCallCompleted)
      => \A l \in VisibleSet(W) :
            l \in DOMAIN calls[1].layersBefore
              => /\ l \in DOMAIN layers
                 /\ layers[l].html = calls[1].layersBefore[l].html
                 /\ layers[l].delegatedListeners =
                        calls[1].layersBefore[l].delegatedListeners

\* the last call was accepted and has completed
LastCallRan == LastCallCompleted /\ LastCall.accepted

\* C10: after a switch, push or pop that was awaited completes, every managed
\* layer that exists is shown if and only if it is in the visible set of
\* the new top state.
ManagedShownIffVisible ==
    LastCallRan
      => \A l \in managedLayers \cap DOMAIN layers :
            layers[l].shown <=> l \in VisibleSet(W)

\* C10, amended: the same for every managed layer that existed when the
\* call applied visibility, which a switch and a push do before they call
\* the enter hook of the target.
SweptShownIffVisible ==
    LastCallRan
      => \A l \in obs.swept \cap DOMAIN layers :
            layers[l].shown <=> l \in VisibleSet(W)

\* a call has completed that hid a layer that was shown and showed a layer
\* that was hidden
SweptShownIffVisibleWitness ==
    /\ LastCallRan
    /\ \E l \in obs.swept \cap DOMAIN layers \cap DOMAIN LastCall.layersBefore :
          LastCall.layersBefore[l].shown /\ ~layers[l].shown
    /\ \E l \in obs.swept \cap DOMAIN layers \cap DOMAIN LastCall.layersBefore :
          ~LastCall.layersBefore[l].shown /\ layers[l].shown

-----------------------------------------------------------------------------
(* Scoped listeners *)

\* the states whose scoped handlers are on the event bus or on document
InstalledOwners ==
    {eventBus[i].owner : i \in DOMAIN eventBus}
        \cup {documentListeners[i].owner : i \in DOMAIN documentListeners}

\* C11: in every reachable state the scoped event and key handlers that are
\* installed all belong to one state: the handlers of two states are never
\* installed together.
ScopedListenersOfOneState == Cardinality(InstalledOwners) <= 1

\* the handlers of game are installed where those of pause were before
ScopedListenersOfOneStateWitness ==
    /\ Idle
    /\ stateStack = <<"pause", "game">>
    /\ InstalledOwners = {"game"}
    /\ Len(eventBus) = 2 /\ Len(documentListeners) = 1

\* C12: the callback a state registered with onEvent or onKey is called only
\* when that state is the top of the stack at dispatch; a handler that is
\* dispatched while another state is on top, or none, does not call it.
ScopedCallbackOnlyOnTop == ~obs.staleInvoked

\* a handler was dispatched while its state was not on top, and a handler
\* whose state was on top has called its callback
ScopedCallbackOnlyOnTopWitness == obs.staleSkipped /\ obs.invoked

-----------------------------------------------------------------------------
(* Layer listeners across exit *)

\* the callbacks a builder declares with on() and onContainer()
DeclaredCallbacks(b) ==
    {Builders[b].delegatedListeners[i].callback :
        i \in DOMAIN Builders[b].delegatedListeners}
    \cup {Builders[b].containerListeners[i].callback :
        i \in DOMAIN Builders[b].containerListeners}

\* the number of installed copies of a callback: on the layers and the host
Copies(c) ==
    LET Pos == {<<l, j>> \in (DOMAIN layers) \X (1..8) :
                  /\ j \in DOMAIN layers[l].delegatedListeners
                  /\ layers[l].delegatedListeners[j].callback = c}
    IN  Cardinality(Pos) + Cardinality({x \in container : x.callback = c})

\* the number of stack entries whose combined enter hook runs builder b
EnteredCount(b) ==
    Cardinality({i \in DOMAIN stateStack :
                    b \in SeqToSet(states[stateStack[i]].onEnter)})

\* C13: once the exit of a state has completed, none of the delegated and
\* container listeners its entry attached remains installed, whatever the
\* layer they were declared on: a declared listener is installed at most
\* once for each entry of its state that has not been exited.
NoListenerAfterExit ==
    Idle => \A b \in BuilderNames : \A c \in DeclaredCallbacks(b) :
                Copies(c) <= EnteredCount(b)

-----------------------------------------------------------------------------
(* Managed prefabs across exit *)

\* the builder whose withPrefabs / withPrefabsBatched call made group g
GroupOwner(g) ==
    CHOOSE b \in BuilderNames :
        \E i \in DOMAIN Builders[b].onExitHooks :
            /\ Builders[b].onExitHooks[i].kind = "destroy"
            /\ Builders[b].onExitHooks[i].group = g

\* the live instances of the prefabs of group g
LiveOfGroup(g) == {i \in scene : i.group = g}

\* C14: when a state with managed prefabs has been entered and then exited,
\* each call awaited, its exit hook has destroyed the instances its entry
\* made and the state tracks none: with no entry of the state on the stack
\* no instance of its prefabs is live and none is tracked.
ManagedDestroyedOnExit ==
    Idle => \A g \in GroupNames :
                EnteredCount(GroupOwner(g)) = 0
                  => instantiatedPrefabs[g] = <<>> /\ LiveOfGroup(g) = {}

-----------------------------------------------------------------------------
(* Layers across exit *)

\* layer l is as reset() and hide() leave it, and the children it had are gone
ResetAndHidden(l) ==
    /\ l \in DOMAIN layers
    /\ ~layers[l].shown
    /\ layers[l].html = ""
    /\ layers[l].children = <<>>
    /\ layers[l].delegatedListeners = <<>>
    /\ layers[l].cleanupTasks = <<>>
    /\ \A c \in SeqToSet(obs.exitBegin[l].children) : c \notin DOMAIN layers

\* layer l has the content and the child layers it had when the exit began
KeptAcrossExit(l) ==
    /\ l \in DOMAIN layers
    /\ layers[l].html = obs.exitBegin[l].html
    /\ layers[l].children = obs.exitBegin[l].children
    /\ \A c \in SeqToSet(layers[l].children) :
          c \in DOMAIN layers /\ layers[c].parent = l

-----------------------------------------------------------------------------
(* Inheritance *)

\* the states that extend a registered base and declare no transition
InheritingTransition ==
    {n \in BuilderNames \cap DOMAIN states :
        /\ IsDef(Builders[n].extendsStateName)
        /\ Builders[n].extendsStateName[1] \in DOMAIN states
        /\ ~IsDef(Builders[n].transitionEffectName)}

\* the state whose transition a running call uses: the target, or on pop
\* the state being removed
TransitionOwner(o) ==
    IF ops[o].kind = "pop" THEN ops[o].prev ELSE ops[o].name

\* C16: a state that extends a registered base and declares no transition
\* of its own is switched to, pushed and popped with the effect and the
\* duration of the base.
InheritsBaseTransition ==
    \A o \in Slots :
        (ops[o].pc \notin {"idle", "yield"}
           /\ TransitionOwner(o) \in InheritingTransition)
          => LET base == states[Builders[TransitionOwner(o)].extendsStateName[1]]
             IN  /\ ops[o].effect = getTransitionEffect(base.transitionEffectName)
                 /\ ops[o].dur = OrElse(base.transitionDuration,
                                        DefaultTransitionDuration)

RECURSIVE ExpectedChain(_)
\* the builders whose combined hooks a state runs: those of its base, then
\* its own
ExpectedChain(st) ==
    IF IsDef(Builders[st].extendsStateName)
    THEN ExpectedChain(Builders[st].extendsStateName[1]) \o <<st>>
    ELSE <<st>>

RECURSIVE ExpectedBegins(_, _)
\* the calls of combined hooks that the hook calls in owners stand for:
\* each builder of the chain, with the argument of the call
ExpectedBegins(owners, e) ==
    IF owners = <<>> THEN <<>>
    ELSE LET x == Head(owners)
             chain == ExpectedChain(x.a)
         IN  [i \in DOMAIN chain |-> Ev(e, chain[i], x.b, x.n)]
             \o ExpectedBegins(Tail(owners), e)

\* in the sequence of begins and ends, every begin but the last is followed
\* by the end of the same builder
RunToCompletion(bounds, begin) ==
    \A i \in DOMAIN bounds :
        IF i % 2 = 1
        THEN bounds[i].e = begin
        ELSE bounds[i].e # begin /\ bounds[i].a = bounds[i - 1].a

EnterBounds ==
    SelectSeq(trace, LAMBDA x : x.e \in {"enterBegin", "attached",
                                          "attachCancelled"})
ExitBounds == SelectSeq(trace, LAMBDA x : x.e \in {"exitBegin", "exitEnd"})

\* C18: for a state that extends a base, the combined enter hook of the base
\* runs to completion before the state's own begins, the combined exit hook
\* of the base runs to completion before the state's own begins, and both
\* get the payload (on exit the destination) of the call.
BaseHooksFirst ==
    /\ RunToCompletion(EnterBounds, "enterBegin")
    /\ RunToCompletion(ExitBounds, "exitBegin")
    /\ IsPrefix(Events(trace, "enterBegin"),
                ExpectedBegins(Events(trace, "onEnter"), "enterBegin"))
    /\ IsPrefix(Events(trace, "exitBegin"),
                ExpectedBegins(Events(trace, "onExit"), "exitBegin"))
    /\ LastCallCompleted
         => /\ Events(trace, "enterBegin") =
                 ExpectedBegins(Events(trace, "onEnter"), "enterBegin")
            /\ Events(trace, "exitBegin") =
                 ExpectedBegins(Events(trace, "onExit"), "exitBegin")

\* a switch from a state that extends a base to another one has completed:
\* both the exit and the entry ran the hooks of the base and their own
BaseHooksFirstWitness ==
    /\ LastCallCompleted /\ LastCall.kind = "switch"
    /\ LastCall.stackBefore = <<"pause">> /\ LastCall.name = "settings"
    /\ Len(Events(trace, "exitEnd")) = 2
    /\ Len(Events(trace, "attached")) = 2

-----------------------------------------------------------------------------
(* Inheritance resolution *)

\* the last register() call: its builder, the registry it found, the config
\* it built, the name of the parent and the config it stored
Reg == obs.registered[1]
RegChild == build(Reg.builder)
RegParent == Reg.builder.extendsStateName[1]
RegResolved == states[Reg.builder.name]

\* the last register() call found the parent of its builder registered
RegisteredWithParent ==
    /\ obs.registered # <<>>
    /\ IsDef(Reg.builder.extendsStateName)
    /\ RegParent \in DOMAIN Reg.before

\* the parent as that call resolved it
RegResolvedParent ==
    resolveInheritance(Reg.before, Reg.before[RegParent], {RegParent})

NoDuplicates(q) == \A i, j \in DOMAIN q : q[i] = q[j] => i = j

\* q is the union of the optional lists x and y, each element once
IsUnionOf(q, x, y) ==
    /\ IsDef(q) /\ NoDuplicates(q[1])
    /\ SeqToSet(q[1]) = SeqToSet(OrElse(x, <<>>)) \cup SeqToSet(OrElse(y, <<>>))

\* C17: resolving a state whose parent is registered gives the layers of the
\* resolved parent overlaid by the child's, the visible list of the child if
\* it declares one and of the parent otherwise, the unions without
\* duplicates of preserveOnExit, cleanupOnExit and managedPrefabs, and the
\* sums of the hook counts.
ResolvedIsMerge ==
    RegisteredWithParent
      => LET p == RegResolvedParent
             c == RegChild
             r == RegResolved
             pl == OrElse(p.ui.layers, <<>>)
             cl == OrElse(c.ui.layers, <<>>)
         IN  /\ IsDef(r.ui.layers)
             /\ DOMAIN r.ui.layers[1] = DOMAIN pl \cup DOMAIN cl
             /\ \A k \in DOMAIN r.ui.layers[1] :
                    r.ui.layers[1][k] = IF k \in DOMAIN cl THEN cl[k] ELSE pl[k]
             /\ r.ui.visible = IF IsDef(c.ui.visible) THEN c.ui.visible
                                ELSE p.ui.visible
             /\ IsUnionOf(r.ui.preserveOnExit, p.ui.preserveOnExit,
                          c.ui.preserveOnExit)
             /\ IsUnionOf(r.ui.cleanupOnExit, p.ui.cleanupOnExit,
                          c.ui.cleanupOnExit)
             /\ IsUnionOf(r.managedPrefabs, p.managedPrefabs, c.managedPrefabs)
             /\ r.onEnterHookCount = p.onEnterHookCount + c.onEnterHookCount
             /\ r.onExitHookCount = p.onExitHookCount + c.onExitHookCount

\* a builder with layers, preserved layers and prefabs was registered on a
\* parent that has them too, with another z-index for the shared layer
ResolvedIsMergeWitness ==
    /\ RegisteredWithParent
    /\ IsDef(RegChild.ui.layers) /\ IsDef(RegResolvedParent.ui.layers)
    /\ "shared" \in DOMAIN RegChild.ui.layers[1]
    /\ "shared" \in DOMAIN RegResolvedParent.ui.layers[1]
    /\ RegResolvedParent.ui.layers[1]["shared"] # RegChild.ui.layers[1]["shared"]
    /\ RegResolved.ui.layers[1]["shared"] = ZOf(Reg.builder.name)
    /\ Len(RegResolved.managedPrefabs[1]) = 3
    /\ RegResolved.onExitHookCount >= 4

RECURSIVE ResolveWalk(_, _, _)
\* the calls of resolveInheritance that one call makes, itself included, and
\* whether one of them found the parent in the visited set
ResolveWalk(reg, config, visited) ==
    IF ~IsDef(config.extends) THEN [calls |-> 1, cut |-> FALSE]
    ELSE LET parentName == config.extends[1]
         IN  IF parentName \in visited THEN [calls |-> 1, cut |-> TRUE]
             ELSE IF parentName \notin DOMAIN reg
             THEN [calls |-> 1, cut |-> FALSE]
             ELSE LET r == ResolveWalk(reg, reg[parentName],
                                       visited \cup {parentName})
                  IN  [calls |-> r.calls + 1, cut |-> r.cut]

\* the extends references of the registry form a cycle through n
OnCycle(n) ==
    \E m \in DOMAIN states :
        /\ IsDef(states[n].extends) /\ states[n].extends[1] = m
        /\ IsDef(states[m].extends) /\ states[m].extends[1] = n

\* C19: resolution ends for every registry, cycles of extends references
\* included: resolving any builder makes at most one call for each
\* registered name and one for itself; and a config whose parent is in the
\* visited set is returned as it is, without the reference to the parent.
ResolutionTerminates ==
    /\ \A b \in RegBuilders :
          ResolveWalk(states, build(b), {}).calls <= Cardinality(DOMAIN states) + 1
    /\ \A n \in DOMAIN states :
          IsDef(states[n].extends)
            => resolveInheritance(states, states[n], {states[n].extends[1]})
                 = [states[n] EXCEPT !.extends = Undefined]

\* the registry holds a cycle, and the last register() call walked into it
\* and stopped at a parent it had visited
ResolutionTerminatesWitness ==
    /\ obs.registered # <<>>
    /\ \E n \in DOMAIN Reg.before : OnCycle(n) /\ Reg.before[n] = states[n]
    /\ ResolveWalk(Reg.before, RegChild, {}).cut
    /\ ~IsDef(resolveInheritance(states, states[RegParent], {RegParent}).extends)

\* C20: resolving a config that declares no parent returns it unchanged, and
\* resolving a config that a resolution returned returns it unchanged.
ResolutionIdempotent ==
    /\ \A b \in RegBuilders :
          ~IsDef(b.extendsStateName)
            => resolveInheritance(states, build(b), {}) = build(b)
    /\ \A n \in DOMAIN states :
          resolveInheritance(states, states[n], {}) = states[n]

-----------------------------------------------------------------------------
(* Calls that are refused *)

\* a step is the host calling switch, push or pop
IsCall == obs'.nCalls = obs.nCalls + 1

\* the step leaves the engine as it was: the stack, the scoped listeners, the
\* layers, the prefabs, the calls in flight; it logs no hook, no transition
\* phase and no onSwitch notification, and nothing is thrown
NoEffect ==
    /\ stateStack' = stateStack /\ states' = states
    /\ managedLayers' = managedLayers
    /\ activeEventListeners' = activeEventListeners
    /\ activeKeyListeners' = activeKeyListeners
    /\ eventBus' = eventBus /\ documentListeners' = documentListeners
    /\ layers' = layers /\ container' = container
    /\ entryVersion' = entryVersion
    /\ instantiatedPrefabs' = instantiatedPrefabs /\ scene' = scene
    /\ ops' = ops
    /\ trace' = <<>>
    /\ obs'.threw = obs.threw

\* the last call was refused and nothing has run since
LastCallRefused ==
    /\ calls # <<>> /\ ~LastCall.accepted
    /\ trace = <<>> /\ Idle
    /\ stateStack = LastCall.stackBefore /\ layers = LastCall.layersBefore

\* C21: pop() called with at most one entry on the stack changes nothing:
\* the stack, the scoped listeners and the layers stay as they are, no hook
\* and no transition phase runs, and no onSwitch notification is emitted.
PopAtFloorIsNoOp ==
    [][(IsCall /\ LastCall'.kind = "pop" /\ Len(stateStack) <= 1)
          => NoEffect]_vars

\* pop() was called with one state on the stack, its listeners installed
PopAtFloorIsNoOpWitness ==
    /\ LastCallRefused /\ LastCall.kind = "pop"
    /\ Len(stateStack) = 1 /\ eventBus # <<>>

\* C22: switch(name) and push(name) with a name that is not registered
\* change nothing: the stack, the scoped listeners and the layers stay as
\* they are, no hook and no transition phase runs, no onSwitch notification
\* is emitted, and the call returns without throwing.
UnregisteredIsNoOp ==
    [][(IsCall /\ LastCall'.kind \in {"switch", "push"}
          /\ LastCall'.name \notin DOMAIN states)
          => NoEffect]_vars

\* switch was called with a name that is not registered, on a stack of two
UnregisteredIsNoOpWitness ==
    /\ LastCallRefused /\ LastCall.kind = "switch"
    /\ LastCall.name \notin DOMAIN states
    /\ Len(stateStack) = 2 /\ eventBus # <<>>

\* C23: push(target) called while target is the current state is a no-op:
\* the stack stays as it is, the enter hook of target is not called again,
\* and no scoped listener is removed or installed.
PushCurrentIsNoOp ==
    [][(IsCall /\ LastCall'.kind = "push" /\ LastCall'.name = current(W))
          => NoEffect]_vars

\* push was called with the name of the current state, its listeners installed
PushCurrentIsNoOpWitness ==
    /\ LastCallRefused /\ LastCall.kind = "push"
    /\ LastCall.name = current(W) /\ eventBus # <<>>

-----------------------------------------------------------------------------
(* Hooks that fail *)

\* C24: when an enter hook or an exit hook throws or rejects during switch,
\* push or pop, the call rejects, and it runs no later step: the rejection
\* of the call is the last thing it does.
HookErrorRejects ==
    \A i \in DOMAIN trace :
        trace[i].e = "hookThrew"
          => /\ Len(trace) = i + 1
             /\ trace[i + 1] = Ev("rejected", LastCall.kind, LastCall.name,
                                  trace[i].n)
             /\ trace[i].n = LastCall.n
             /\ Idle

\* the exit hook of the second of three states a switch exits has rejected:
\* the first is gone, the others are still on the stack
HookErrorRejectsWitness ==
    /\ \E i \in DOMAIN trace : trace[i].e = "hookThrew"
    /\ LastCall.kind = "switch" /\ Len(LastCall.stackBefore) = 3
    /\ Len(stateStack) = 2
    /\ Events(trace, "exitDone") # <<>>

-----------------------------------------------------------------------------
(* The layer tree on its own: the host creates, fills, resets and destroys   *)
(* layers *)

\* the manager before any layer is created
InitLayers ==
    Holds([Constructed EXCEPT !.layers = <<>>, !.obs.noting = TRUE,
                              !.obs.tracing = FALSE,
                              !.obs.budget = MaxLayerOps])

\* the host calls op on the layer r with argument arg
BeginOp(w, op, r, arg) ==
    [w EXCEPT !.trace = <<>>, !.obs.op = op, !.obs.ref = r, !.obs.arg = arg,
              !.obs.result = NONE, !.obs.budget = @ - 1]

\* the tasks registered on a layer since its last reset
Pending(w) ==
    LET gone == {w.trace[i].a : i \in {k \in DOMAIN w.trace :
                                          w.trace[k].e = "removed"}}
        p1 == IF w.obs.op = "addCleanupTask"
              THEN w.obs.pending \cup {<<w.obs.ref, w.obs.arg>>}
              ELSE IF w.obs.op = "reset"
              THEN {x \in w.obs.pending : x[1] # w.obs.ref}
              ELSE w.obs.pending
    IN  [w EXCEPT !.obs.pending = {x \in p1 : x[1] \notin gone}]

\* ui.create(name) or ui.create(name, { parent }), the parent given by a
\* name, registered or not, or by a reference
CreateLayer ==
    /\ obs.budget > 0
    /\ \E name \in LayerNames :
       \E parent \in {NONE} \cup LayerNames \cup DOMAIN detached :
           Commit(Pending(create(BeginOp(W, "create", name, parent),
                                 name, parent)))

\* the object a reference to the layer name holds after destroy(name)
Kept(w, name) ==
    clearListeners(DestroyEach(w, w.layers[name].children), name).layers[name]

\* ui.destroy(name); the host may have a reference to the layer
DestroyLayer ==
    /\ obs.budget > 0
    /\ \E name \in LayerNames :
          \/ Commit(Pending(destroy(BeginOp(W, "destroy", name, NONE), name)))
          \/ /\ has(W, name)
             /\ \E h \in Handles \ DOMAIN detached :
                   Commit(Pending(
                       [destroy(BeginOp(W, "destroy", name, h), name)
                           EXCEPT !.detached = (h :> Kept(W, name)) @@ @]))

\* layer.reset(), on a registered layer or through a reference
ResetLayer ==
    /\ obs.budget > 0
    /\ \E r \in DOMAIN layers \cup DOMAIN detached :
          Commit(Pending(reset(BeginOp(W, "reset", r, NONE), r)))

\* layer.html(content)
ReplaceContent ==
    /\ obs.budget > 0
    /\ \E r \in DOMAIN layers : \E c \in Contents :
          Commit(Pending(html(BeginOp(W, "html", r, c), r, c)))

\* layer.addCleanupTask(task), with a task not registered at the moment
AddTask ==
    /\ obs.budget > 0
    /\ \E r \in DOMAIN layers : \E t \in TaskIds :
          /\ \A q \in DOMAIN layers : \A i \in DOMAIN layers[q].cleanupTasks :
                 layers[q].cleanupTasks[i].id # t
          /\ Commit(Pending(addCleanupTask(
                 BeginOp(W, "addCleanupTask", r, t), r,
                 [kind |-> "user", id |-> t, throws |-> t \in Throwing,
                  eventType |-> NONE, callback |-> NONE])))

\* layer.on('click', '.btn', callback)
Subscribe ==
    /\ obs.budget > 0
    /\ \E r \in DOMAIN layers :
          /\ layers[r].delegatedListeners = <<>>
          /\ Commit(Pending(on(BeginOp(W, "on", r, NONE), r, "click", ".btn",
                               "cb")))

\* layer.hide()
HideLayer ==
    /\ obs.budget > 0
    /\ \E r \in DOMAIN layers :
          /\ layers[r].shown
          /\ Commit(Pending(hide(BeginOp(W, "hide", r, NONE), r)))

NextLayers ==
    \/ CreateLayer \/ DestroyLayer \/ ResetLayer \/ ReplaceContent
    \/ AddTask \/ Subscribe \/ HideLayer

\* the operations on the layers, one after the other
SpecLayers == InitLayers /\ [][NextLayers]_vars

-----------------------------------------------------------------------------
(* The delegated listeners of one layer *)

MaxSubOps == 4       \* calls of on, off and html in one behaviour of SpecSubs

EventTypes == {"click", "input"}
Selectors == {".btn", ".tab"}
Callbacks == {"cb1", "cb2"}

\* one layer, created and filled
InitSubs ==
    Holds([html(create([Constructed EXCEPT !.layers = <<>>], "a", NONE),
                "a", "x")
              EXCEPT !.obs.noting = TRUE, !.obs.tracing = FALSE,
                     !.obs.budget = MaxSubOps])

\* layer.on(eventType, selector, callback)
OnPair ==
    /\ obs.budget > 0
    /\ \E e \in EventTypes, sel \in Selectors, cb \in Callbacks :
          Commit(on(BeginOp(W, "on", "a", <<e, sel, cb>>), "a", e, sel, cb))

\* layer.off(eventType, selector, callback)
OffPair ==
    /\ obs.budget > 0
    /\ \E e \in EventTypes, sel \in Selectors, cb \in Callbacks :
          Commit(off(BeginOp(W, "off", "a", <<e, sel, cb>>), "a", e, sel, cb))

\* layer.clearListeners(), as html(), text(), reset() and destroy() call it
ClearPairs ==
    /\ obs.budget > 0
    /\ Commit(clearListeners(BeginOp(W, "clearListeners", "a", <<>>), "a"))

NextSubs == OnPair \/ OffPair \/ ClearPairs

\* the host subscribes to and unsubscribes from events of one layer
SpecSubs == InitSubs /\ [][NextSubs]_vars

-----------------------------------------------------------------------------
(* The event bus on its own *)

MaxBusOps == 4       \* calls of on, off and emit in one behaviour of SpecBus

BusEvents == {"ping", "pong"}

\* the bus before any handler is registered
InitBus ==
    Holds([Constructed EXCEPT !.obs.noting = TRUE, !.obs.tracing = FALSE,
                              !.obs.budget = MaxBusOps])

\* events.on(name, cb)
BusOn ==
    /\ obs.budget > 0
    /\ \E name \in BusEvents, cb \in DOMAIN HostCallbacks :
          Commit(busOn(BeginOp(W, "on", name, cb), name, cb))

\* events.off(name, cb)
BusOff ==
    /\ obs.budget > 0
    /\ \E name \in BusEvents, cb \in DOMAIN HostCallbacks :
          Commit(busOff(BeginOp(W, "off", name, cb), name, cb))

\* events.emit(name)
BusEmit ==
    /\ obs.budget > 0
    /\ \E name \in BusEvents :
          LET w == BeginOp(W, "emit", name, NONE)
          IN  Commit(emit(w, w.eventBus, name))

NextBus == BusOn \/ BusOff \/ BusEmit

\* the host subscribes, unsubscribes and emits, and so do its handlers
SpecBus == InitBus /\ [][NextBus]_vars

-----------------------------------------------------------------------------
(* Transition effects *)

\* the state whose transition the last call uses
LastCallOwner ==
    IF LastCall.kind = "pop"
    THEN LastCall.stackBefore[Len(LastCall.stackBefore)]
    ELSE LastCall.name

LastCallRuns == calls # <<>> /\ LastCall.accepted

\* the registered states that name an effect that is not registered
UnregisteredEffect ==
    {n \in DOMAIN states :
        /\ IsDef(states[n].transitionEffectName)
        /\ states[n].transitionEffectName[1] \notin TransitionEffects}

\* the registered states that name a registered effect and no duration
DefaultedDuration ==
    {n \in DOMAIN states :
        /\ IsDef(states[n].transitionEffectName)
        /\ states[n].transitionEffectName[1] \in TransitionEffects
        /\ ~IsDef(states[n].transitionDuration)}

\* what a switch or push that has completed leaves, whatever the effect:
\* the target on top, its scoped listeners installed, its combined enter
\* hook called once, its visible layers shown
EnteredTarget ==
    /\ stateStack = IF LastCall.kind = "switch" THEN <<LastCall.name>>
                    ELSE Append(LastCall.stackBefore, LastCall.name)
    /\ Len(Events(trace, "onExit")) =
           IF LastCall.kind = "switch" THEN Len(LastCall.stackBefore) ELSE 0
    /\ Events(trace, "enterBegin") =
           <<Ev("enterBegin", LastCall.name, NONE, LastCall.n)>>
    /\ InstalledOwners = {LastCall.name}
    /\ Len(eventBus) =
           Len(OrElse(states[LastCall.name].eventListeners, <<>>))
    /\ \A l \in VisibleSet(W) \cap DOMAIN layers : layers[l].shown

\* C25: a switch or push to a state that names an effect that is not
\* registered completes as one without an effect does, same stack, scoped
\* listeners, visibility and hook calls, and runs neither phase of an
\* effect; with a registered effect and no duration, both phases are called
\* with duration 300.
EffectFallbacks ==
    LastCallRuns
      => /\ LastCallOwner \in UnregisteredEffect
              => /\ Events(trace, "transExit") = <<>>
                 /\ Events(trace, "transEnter") = <<>>
                 /\ \A o \in Slots : ops[o].pc \notin {"transExit", "transEnter"}
                 /\ ~(\E i \in DOMAIN trace : trace[i].e = "rejected")
                 /\ (LastCallCompleted /\ LastCall.kind # "pop")
                       => EnteredTarget
         /\ LastCallOwner \in DefaultedDuration
              => /\ \A i \in DOMAIN trace :
                        trace[i].e \in {"transExit", "transEnter"}
                          => trace[i].n = DefaultTransitionDuration
                 /\ Len(Events(trace, "transExit")) <= 1
                 /\ (\E i \in DOMAIN trace : trace[i].e = "deactivate")
                       => Len(Events(trace, "transExit")) = 1
                 /\ LastCallCompleted
                       => Len(Events(trace, "transEnter")) = 1

\* a switch to the state with the effect that is not registered, called
\* with a stack of two, has completed without a phase of an effect, and then
\* a push of the state with an effect and no duration has completed
EffectFallbacksWitness ==
    /\ Len(calls) = 2 /\ LastCallRuns /\ LastCallCompleted
    /\ calls[1].kind = "switch" /\ calls[1].accepted
    /\ calls[1].name \in UnregisteredEffect
    /\ Len(calls[1].stackBefore) = 2
    /\ prevTrace # <<>> /\ prevTrace[Len(prevTrace)].e = "done"
    /\ Events(prevTrace, "transExit") = <<>>
    /\ LastCall.kind = "push" /\ LastCall.name \in DefaultedDuration
    /\ LastCall.stackBefore = <<calls[1].name>>
    /\ Events(trace, "transEnter") =
           <<Ev("transEnter", LastCall.name, calls[1].name,
                DefaultTransitionDuration)>>

-----------------------------------------------------------------------------
(* The layer tree *)

\* the object behind r in a registry ls and a set dt of kept references
ObjIn(ls, dt, r) == IF r \in DOMAIN ls THEN ls[r] ELSE dt[r]

RECURSIVE SubtreeOf(_, _, _)
\* r and the layers below it
SubtreeOf(ls, dt, r) ==
    {r} \cup UNION {SubtreeOf(ls, dt, ObjIn(ls, dt, r).children[i]) :
                       i \in DOMAIN ObjIn(ls, dt, r).children}

\* the positions of the events e about layer r in a trace
EventsAt(tr, e, r) == {i \in DOMAIN tr : tr[i].e = e /\ tr[i].a = r}

\* the ids of the tasks called for layer r, in the order of the calls
TasksCalled(tr, r) ==
    LET evs == SelectSeq(tr, LAMBDA x : x.e = "task" /\ x.a = r)
    IN  [i \in DOMAIN evs |-> evs[i].b]

TaskIdsOf(l) == [i \in DOMAIN l.cleanupTasks |-> l.cleanupTasks[i].id]

\* C26: create(name, ...) fails when a layer named name exists, and then
\* changes nothing: the registry, the links between parents and children and
\* the existing layer are as before; create with a parent given by a name that
\* does not resolve does not fail and creates a top-level layer, without
\* a parent.
CreateRefusesOrFallsBack ==
    [][obs'.op = "create"
         => /\ obs'.ref \in DOMAIN layers
                => /\ obs'.result = "threw"
                   /\ layers' = layers /\ detached' = detached
                   /\ container' = container /\ trace' = <<>>
            /\ (/\ obs'.ref \notin DOMAIN layers
                /\ obs'.arg \in LayerNames \ DOMAIN layers)
                => /\ obs'.result = obs'.ref
                   /\ DOMAIN layers' = DOMAIN layers \cup {obs'.ref}
                   /\ layers'[obs'.ref] = NewLayer(NONE)
                   /\ \A l \in DOMAIN layers : layers'[l] = layers[l]
                   /\ detached' = detached]_vars

\* create was called with the name of a registered layer that has a child,
\* and with a parent
CreateRefusesOrFallsBackWitness ==
    /\ obs.op = "create" /\ obs.result = "threw"
    /\ obs.ref \in DOMAIN layers /\ obs.arg \in DOMAIN layers
    /\ obs.arg # obs.ref
    /\ layers[obs.ref].children # <<>>

\* C27: destroy(name) on a registered layer removes from the registry the
\* layer and every layer below it, each one before the layers above it,
\* removes the layer from the children of its parent, calls the cleanup tasks
\* of every layer it removes, and returns true; destroy(name) on a name that
\* is not registered returns false and changes nothing.
DestroyRemovesSubtree ==
    [][obs'.op = "destroy"
         => LET r == obs'.ref
                sub == SubtreeOf(layers, detached, r)
            IN  /\ r \in DOMAIN layers
                    => /\ obs'.result = "true"
                       /\ DOMAIN layers' = DOMAIN layers \ sub
                       /\ \A l \in sub : Cardinality(EventsAt(trace', "removed", l)) = 1
                       /\ \A l \in sub : \A d \in SubtreeOf(layers, detached, l) \ {l} :
                             \A i \in EventsAt(trace', "removed", d) :
                                 \A j \in EventsAt(trace', "removed", l) : i < j
                       /\ \A l \in sub :
                             TasksCalled(trace', l) = TaskIdsOf(layers[l])
                       /\ layers[r].parent # NONE
                            => ObjIn(layers', detached', layers[r].parent).children
                                  = RemoveOne(ObjIn(layers, detached,
                                                    layers[r].parent).children, r)
                /\ r \notin DOMAIN layers
                    => /\ obs'.result = "false"
                       /\ layers' = layers /\ detached' = detached
                       /\ container' = container /\ trace' = <<>>]_vars

\* destroy has removed a layer with a layer below it and one below that, and
\* has called a cleanup task
DestroyRemovesSubtreeWitness ==
    /\ obs.op = "destroy" /\ obs.result = "true"
    /\ Len(Events(trace, "removed")) = 3
    /\ Events(trace, "removed")[3].a = obs.ref
    /\ Events(trace, "task") # <<>>
    /\ layers = <<>>

\* C28: after any sequence of create (the parent given by name or by
\* reference), destroy, reset and html: every layer listed in the children of
\* a registered layer is registered, and every registered layer that has a
\* parent has a registered parent whose children hold it exactly once (the
\* registry maps each name to one layer).
TreeWellFormed ==
    /\ \A l \in DOMAIN layers : \A i \in DOMAIN layers[l].children :
          layers[l].children[i] \in DOMAIN layers
    /\ \A l \in DOMAIN layers :
          layers[l].parent # NONE
            => /\ layers[l].parent \in DOMAIN layers
               /\ Cardinality({i \in DOMAIN layers[layers[l].parent].children :
                                 layers[layers[l].parent].children[i] = l}) = 1

\* C29: reset() on a layer destroys the layers below it, clears its content,
\* its delegated listeners, its listeners on the element and its cleanup
\* tasks, and leaves the layer registered as it was, under the same parent
\* and shown or hidden as it was; every layer outside its subtree is
\* unchanged.
ResetKeepsLayer ==
    [][obs'.op = "reset"
         => LET r == obs'.ref
                sub == SubtreeOf(layers, detached, r)
                before == ObjIn(layers, detached, r)
            IN  /\ DOMAIN layers' = DOMAIN layers \ (sub \ {r})
                /\ DOMAIN detached' = DOMAIN detached
                /\ ObjIn(layers', detached', r) =
                      [before EXCEPT !.children = <<>>, !.html = "",
                                     !.delegatedListeners = <<>>,
                                     !.masterHandlers = {},
                                     !.elementListeners = <<>>,
                                     !.cleanupTasks = <<>>]
                /\ \A l \in (DOMAIN layers) \ sub : layers'[l] = layers[l]
                /\ \A h \in (DOMAIN detached) \ {r} :
                      detached'[h] = detached[h]]_vars

\* reset was called on a hidden layer that has a parent, and has removed a
\* layer below it
ResetKeepsLayerWitness ==
    /\ obs.op = "reset" /\ obs.ref \in DOMAIN layers
    /\ layers[obs.ref].parent # NONE /\ ~layers[obs.ref].shown
    /\ Events(trace, "removed") # <<>>

\* C30: every cleanup task registered on a layer with addCleanupTask is
\* called exactly once by the next reset of that layer and by no later
\* reset, before the listeners of the layer are removed, whether or not a
\* task before it throws.
CalledByNextReset ==
    [][obs'.op = "reset"
         => /\ \A t \in TaskIds :
                  Cardinality({i \in EventsAt(trace', "task", obs'.ref) :
                                  trace'[i].b = t})
                    = IF <<obs'.ref, t>> \in obs.pending THEN 1 ELSE 0
            /\ \A i \in EventsAt(trace', "task", obs'.ref) :
                  \A k \in EventsAt(trace', "unsubscribed", obs'.ref) : i < k
            /\ EventsAt(trace', "unsubscribed", obs'.ref) # {}]_vars

\* what clearListeners does for every caller, reset, html and destroy alike:
\* the tasks the layer holds are each called once, in order and whether or
\* not one throws, then forgotten, and then the listeners are removed
CalledByNextClear ==
    [][\A r \in DOMAIN layers \cup DOMAIN detached :
          LET before == ObjIn(layers, detached, r)
              cleared == EventsAt(trace', "unsubscribed", r)
          IN  IF cleared = {}
              THEN /\ EventsAt(trace', "task", r) = {}
                   /\ IsPrefix(before.cleanupTasks,
                               ObjIn(layers', detached', r).cleanupTasks)
              ELSE /\ Cardinality(cleared) = 1
                   /\ TasksCalled(trace', r) = TaskIdsOf(before)
                   /\ \A i \in EventsAt(trace', "task", r) :
                         \A k \in cleared : i < k
                   /\ r \in DOMAIN layers' \cup DOMAIN detached'
                        => LET after == ObjIn(layers', detached', r)
                           IN  /\ after.cleanupTasks = <<>>
                               /\ after.delegatedListeners = <<>>
                               /\ after.masterHandlers = {}]_vars

-----------------------------------------------------------------------------
(* Delegated listeners *)

\* the pairs registered on layer l for the event type e
PairsOf(l, e) ==
    {<<l.delegatedListeners[i].selector, l.delegatedListeners[i].callback>> :
        i \in {k \in DOMAIN l.delegatedListeners :
                  l.delegatedListeners[k].eventType = e}}

InstalledFor(l, e) ==
    Cardinality({i \in DOMAIN l.elementListeners : l.elementListeners[i] = e})

OneListenerPerType ==
    \A r \in DOMAIN layers : \A e \in EventTypes :
        InstalledFor(layers[r], e) = IF PairsOf(layers[r], e) # {} THEN 1 ELSE 0

\* C31: for every layer and event type, after any sequence of on, off and
\* clearListeners, exactly one listener is installed on the element for the
\* type if a (selector, callback) pair is registered for it, and none
\* otherwise; off for one of two registered pairs leaves the other one
\* called when the event is dispatched.
OneListenerWhilePairs ==
    [][/\ OneListenerPerType'
       /\ obs'.op = "off"
            => LET e == obs'.arg[1]
                   removed == <<obs'.arg[2], obs'.arg[3]>>
               IN  \A p \in PairsOf(layers["a"], e) \ {removed} :
                      \E i \in DOMAIN dispatch(layers'["a"], e) :
                          dispatch(layers'["a"], e)[i] = p]_vars

\* off has removed one of two pairs registered for an event type, the other
\* pair is still registered, and a pair is registered for another type
OneListenerWhilePairsWitness ==
    /\ obs.op = "off"
    /\ Len(layers["a"].delegatedListeners) = 2
    /\ Cardinality(PairsOf(layers["a"], obs.arg[1])) = 1
    /\ <<obs.arg[2], obs.arg[3]>> \notin PairsOf(layers["a"], obs.arg[1])
    /\ layers["a"].masterHandlers = EventTypes

-----------------------------------------------------------------------------
(* The event bus *)

\* the callbacks registered for the event name, in the order of registration
RegisteredFor(bus, name) ==
    LET hs == SelectSeq(bus, LAMBDA h : h.name = name)
    IN  [i \in DOMAIN hs |-> hs[i].index]

\* the callbacks called by the last emit, in the order of the calls
CalledNow(tr) ==
    LET evs == SelectSeq(tr, LAMBDA x : x.e = "called")
    IN  [i \in DOMAIN evs |-> evs[i].a]

\* C32: emit(event) calls exactly the handlers that were registered for the
\* event when it started, in the order of registration: a handler removed
\* during the dispatch, by itself or by another, is still called, a handler
\* added during the dispatch is not, and a handler that throws does not stop
\* the later ones.
EmitCallsSnapshot ==
    [][obs'.op = "emit"
         => CalledNow(trace') = RegisteredFor(eventBus, obs'.ref)]_vars

\* emit has called a handler that throws, then a handler that removes the
\* next one, then the removed one, and the bus no longer holds it
EmitCallsSnapshotWitness ==
    /\ obs.op = "emit"
    /\ CalledNow(trace) = <<"h5", "h3", "h1">>
    /\ RegisteredFor(eventBus, obs.ref) = <<"h5", "h3">>

-----------------------------------------------------------------------------
(* Order of the steps of a call *)

\* the steps of switch, push and pop among the events of a call
Steps(tr) ==
    SelectSeq(tr, LAMBDA x : x.e \in
        {"deactivate", "transExit", "transExitEnd", "onExit", "exitDone",
         "pop", "push", "emit", "activate", "visibility", "onEnter",
         "onEnterDone", "transEnter", "transEnterEnd", "done"})

\* the effect and the duration the state named declares, as a call reads them
EffectOf(name) == getTransitionEffect(states[name].transitionEffectName)
DurationOf(name) ==
    OrElse(states[name].transitionDuration, DefaultTransitionDuration)

Top(stack) == IF stack = <<>> THEN NONE ELSE stack[Len(stack)]

\* the steps of switch(target) number n called with the given stack
SwitchSteps(stack, target, n) ==
    LET prev == Top(stack)
        fx == EffectOf(target) # NONE
    IN  <<Ev("deactivate", NONE, NONE, 0)>>
        \o (IF fx THEN <<Ev("transExit", prev, target, DurationOf(target)),
                         Ev("transExitEnd", NONE, NONE, 0)>>
            ELSE <<>>)
        \o ExpectedExits(stack, target)
        \o <<Ev("push", target, NONE, 0), Ev("emit", target, prev, 0),
             Ev("activate", target, NONE, 0),
             Ev("visibility", target, NONE, 0),
             Ev("onEnter", target, NONE, n),
             Ev("onEnterDone", target, NONE, 0)>>
        \o (IF fx THEN <<Ev("transEnter", target, prev, DurationOf(target)),
                         Ev("transEnterEnd", NONE, NONE, 0)>>
            ELSE <<>>)
        \o <<Ev("done", "switch", target, n)>>

\* C33: a switch(target) to a registered target, awaited before the next
\* call, takes its steps in this order, each awaited step ending before
\* the next begins: the scoped listeners are removed; the exit phase of the
\* target's effect runs, addressed (previous top, target); the exit hooks of
\* the stacked states run; target becomes the only entry; the notification
\* (target, previous top) is emitted; target's scoped listeners are
\* installed; visibility is applied; target's combined enter hook runs with
\* the payload of the call; the enter phase of the effect runs.
SwitchStepsInOrder ==
    (calls # <<>> /\ LastCall.kind = "switch" /\ LastCall.accepted)
      => LET expected == SwitchSteps(LastCall.stackBefore, LastCall.name,
                                     LastCall.n)
         IN  /\ IsPrefix(Steps(trace), expected)
             /\ LastCallCompleted => Steps(trace) = expected
             /\ (\E i \in DOMAIN trace : trace[i].e = "activate")
                   => /\ InstalledOwners \subseteq {LastCall.name}
                      /\ stateStack = <<LastCall.name>>

\* a switch to a state with an effect, called with two entries on the
\* stack, has completed
SwitchStepsInOrderWitness ==
    /\ calls # <<>> /\ LastCall.kind = "switch" /\ LastCall.accepted
    /\ LastCallCompleted
    /\ Len(LastCall.stackBefore) = 2
    /\ EffectOf(LastCall.name) # NONE
    /\ Len(Steps(trace)) = 18

\* the steps of pop() number n called with the given stack of two or more
PopSteps(stack, n) ==
    LET removed == stack[Len(stack)]
        below == stack[Len(stack) - 1]
        fx == EffectOf(removed) # NONE
    IN  <<Ev("deactivate", NONE, NONE, 0)>>
        \o (IF fx THEN <<Ev("transExit", removed, below, DurationOf(removed)),
                         Ev("transExitEnd", NONE, NONE, 0)>>
            ELSE <<>>)
        \o <<Ev("onExit", removed, below, 0), Ev("exitDone", removed, NONE, 0),
             Ev("pop", removed, removed, 0),
             Ev("emit", below, removed, 0), Ev("activate", below, NONE, 0),
             Ev("visibility", below, NONE, 0)>>
        \o (IF fx THEN <<Ev("transEnter", below, removed, DurationOf(removed)),
                         Ev("transEnterEnd", NONE, NONE, 0)>>
            ELSE <<>>)
        \o <<Ev("done", "pop", NONE, n)>>

\* C34: a pop() at depth two or more, awaited before the next call, uses for
\* both phases the effect and the duration declared by the state it removes,
\* not those of the state it resumes; it calls the combined exit hook of the
\* removed state with the state directly below as destination before it
\* removes the entry, then emits the notification (new top, removed state),
\* installs the scoped listeners of the new top and applies visibility, and
\* runs the enter phase addressed (new top, removed state).
PopStepsInOrder ==
    (calls # <<>> /\ LastCall.kind = "pop" /\ LastCall.accepted)
      => LET expected == PopSteps(LastCall.stackBefore, LastCall.n)
             below == LastCall.stackBefore[Len(LastCall.stackBefore) - 1]
         IN  /\ Len(LastCall.stackBefore) >= 2
             /\ IsPrefix(Steps(trace), expected)
             /\ LastCallCompleted => Steps(trace) = expected
             /\ \A i \in DOMAIN trace :
                    trace[i].e = "exitHook" => trace[i].b = below
             /\ (\E i \in DOMAIN trace : trace[i].e = "activate")
                   => /\ InstalledOwners \subseteq {below}
                      /\ stateStack = SubSeq(LastCall.stackBefore, 1,
                                             Len(LastCall.stackBefore) - 1)

\* a pop that removed a state with an effect and resumed a state that
\* declares another duration has completed
PopStepsInOrderWitness ==
    /\ calls # <<>> /\ LastCall.kind = "pop" /\ LastCall.accepted
    /\ LastCallCompleted
    /\ EffectOf(Top(LastCall.stackBefore)) # NONE
    /\ EffectOf(current(W)) # NONE
    /\ DurationOf(Top(LastCall.stackBefore)) # DurationOf(current(W))
    /\ Len(Steps(trace)) = 12

-----------------------------------------------------------------------------
(* The turn of the call *)

\* C35: no call of switch, push or pop changes the stack, the scoped
\* listeners installed or the visibility of a layer, or calls a hook or a
\* phase of an effect, in the turn in which it is made: a call that is
\* accepted only waits for the next frame, and what it does comes after.
NothingInTheTurnOfTheCall ==
    [][IsCall
         => /\ stateStack' = stateStack
            /\ activeEventListeners' = activeEventListeners
            /\ activeKeyListeners' = activeKeyListeners
            /\ eventBus' = eventBus /\ documentListeners' = documentListeners
            /\ layers' = layers /\ container' = container
            /\ entryVersion' = entryVersion
            /\ instantiatedPrefabs' = instantiatedPrefabs /\ scene' = scene
            /\ trace' = <<>>
            /\ obs'.exitBegin = obs.exitBegin /\ obs'.swept = obs.swept
            /\ obs'.invoked = obs.invoked /\ obs'.threw = obs.threw
            /\ \A o \in Slots :
                  \/ ops'[o] = ops[o]
                  \/ /\ LastCall'.accepted
                     /\ ops[o].pc = "idle" /\ ops'[o].pc = "yield"
                     /\ ops'[o].call = LastCall'.n]_vars

\* a switch away from a stack of two has been accepted and waits for the
\* next frame, the listeners of the top state still installed
NothingInTheTurnOfTheCallWitness ==
    /\ calls # <<>> /\ LastCall.accepted /\ LastCall.kind = "switch"
    /\ Len(LastCall.stackBefore) = 2 /\ stateStack = LastCall.stackBefore
    /\ \E o \in Slots : ops[o].pc = "yield" /\ ops[o].call = LastCall.n
    /\ InstalledOwners = {current(W)}
    /\ trace = <<>>

-----------------------------------------------------------------------------
(* Overlapping pushes of one state *)

\* C36: whatever the interleaving of the pushes requested, two requests
\* for one state made before either has resumed included, the stack never
\* holds one name at two adjacent positions.
NoAdjacentDuplicates ==
    \A i \in 1..(Len(stateStack) - 1) : stateStack[i] # stateStack[i + 1]

-----------------------------------------------------------------------------
(* The entry removed and the entry exited *)

\* C37: whatever the interleaving of the calls of switch, push and pop, the
\* entry an operation removes from the stack is the entry whose exit hook
\* that operation has just awaited: no entry leaves the stack without the
\* exit hook of its state having run for it.
RemovedEntryWasExited ==
    [][\A o \in Slots :
          (ops[o].pc = "exitRet" /\ ops'[o] # ops[o] /\ stateStack # <<>>)
             => current(W) = ops[o].exiting]_vars

-----------------------------------------------------------------------------
(* The scoped listeners when nothing is in flight *)

\* the event listeners and the key listeners the state declares
DeclaredEvents(name) == OrElse(states[name].eventListeners, <<>>)
DeclaredKeys(name) == OrElse(states[name].keyListeners, <<>>)

\* C38: whenever no call of switch, push or pop is in flight and the stack
\* is not empty, the scoped listeners installed on the event bus and for
\* the keys are exactly those the state on top declares; so it is too
\* after a call that a throwing hook has ended.
TopListenersInstalled ==
    (Idle /\ stateStack # <<>>)
       => /\ eventBus = OnEach(<<>>, current(W), DeclaredEvents(current(W)), 1)
          /\ activeEventListeners =
                ListenerKeys(current(W), DeclaredEvents(current(W)))
          /\ documentListeners =
                OnEach(<<>>, current(W), DeclaredKeys(current(W)), 1)
          /\ activeKeyListeners =
                ListenerKeys(current(W), DeclaredKeys(current(W)))

-----------------------------------------------------------------------------
(* The layer of the effects when nothing is in flight *)

\* C39: whenever no call of switch, push or pop is in flight the layer of
\* the built-in effects is hidden: the exit phase that shows it is
\* followed, before the operation ends, normally or by the error of a
\* hook, by the enter phase that hides it.
OverlayHiddenWhenIdle == Idle => ~layers[TransitionLayer].shown

-----------------------------------------------------------------------------
(* A chain of three states *)

\* the last register() call registered a state that extends bb, on the
\* registry a new manager has after register(ba) and register(bb), where bb
\* extends ba and ba extends nothing
ChainOfThree(ba, bb) ==
    /\ obs.registered # <<>>
    /\ Cardinality({ba.name, bb.name, Reg.builder.name}) = 3
    /\ ~IsDef(ba.extendsStateName)
    /\ bb.extendsStateName = Some(ba.name)
    /\ Reg.builder.extendsStateName = Some(bb.name)
    /\ Reg.before = register(register(Constructed, ba), bb).states

\* C40: for a chain of three states registered in the order A, B extends A,
\* C extends B, the state C runs the enter hooks of A once, then those of B,
\* then its own, its exit hooks likewise, and its hook counts are the sums
\* of the counts A, B and C declare.
ChainHooksOnce ==
    \A ba, bb \in RegBuilders :
        ChainOfThree(ba, bb)
          => /\ RegResolved.onEnter = <<ba.name, bb.name, Reg.builder.name>>
             /\ RegResolved.onExit = <<ba.name, bb.name, Reg.builder.name>>
             /\ RegResolved.onEnterHookCount =
                   Len(ba.onEnterHooks) + Len(bb.onEnterHooks)
                      + Len(Reg.builder.onEnterHooks)
             /\ RegResolved.onExitHookCount =
                   Len(ba.onExitHooks) + Len(bb.onExitHooks)
                      + Len(Reg.builder.onExitHooks)

====
